---------------------------- MODULE Spec2Model ----------------------------
(***************************************************************************)
(* Model of the MCP client service of simple-architect-assistant:          *)
(*   - MCPRequestCache            (src/src/services/mcp_client.py 49-179)  *)
(*   - MCPClientService registry  (initialize_mcp_servers, 257-396)        *)
(*   - MCPClientService gateway   (call_mcp_tool[_async], 412-539,         *)
(*                                 _handle_fallback_tool_call, 1562-1598)  *)
(*   - cost estimation            (get_cost_estimation, 729-1341)          *)
(*   - AWSServiceCodeHelper       (aws_service_code_helper.py)             *)
(*                                                                         *)
(* Python None is the model value None; a raised exception is an explicit  *)
(* outcome RAISE of the operator that models the function.                 *)
(***************************************************************************)
EXTENDS Integers, Sequences, FiniteSets, TLC

\* Optional values: Python None is the empty tuple, a present value v is <<v>>
None == <<>>
Some(v) == <<v>>

(***************************************************************************)
(* Bounds of the model.                                                    *)
(***************************************************************************)
\* the cache clock runs over 0..MaxClock
MaxClock == 4
\* per-entry TTL overrides passed to set range over 0..MaxTtl
MaxTtl == 2
\* number of set calls in one behaviour of the cache specification
MaxSets == 2
\* number of set calls in one behaviour of the many-keys cache specification
MaxKeySets == 1
\* MCPRequestCache(default_ttl=300) of MCPClientService.__init__
DefaultTtl == 300
\* number of get calls in one behaviour of the cache specification
MaxGets == 3

(***************************************************************************)
(* MCPRequestCache: key derivation.                                        *)
(***************************************************************************)
\* Operation names, positional values, keyword names and keyword values
\* that the cache specification feeds to get and set.
Methods == {"price", "docs"}
\* keyword names, listed in Python's string order ("region" < "tier")
ParamNames == <<"region", "tier">>

\* Python's order on the keyword names: position in ParamNames
Rank(name) == CHOOSE i \in 1..Len(ParamNames) : ParamNames[i] = name

\* repr() of a str without quote characters
Repr(s) == "'" \o s \o "'"

\* sep.join(strs)
RECURSIVE Join(_, _)
Join(strs, sep) ==
    IF Len(strs) = 0 THEN ""
    ELSE IF Len(strs) = 1 THEN strs[1]
    ELSE strs[1] \o sep \o Join(Tail(strs), sep)

\* str(args) of a tuple of strings: "()", "('a',)", "('a', 'b')"
StrTuple(args) ==
    IF Len(args) = 1 THEN "(" \o Repr(args[1]) \o ",)"
    ELSE "(" \o Join([i \in 1..Len(args) |-> Repr(args[i])], ", ") \o ")"

\* str(list of (key, value) tuples): "[]", "[('k', 'v')]", ...
StrItems(items) ==
    "[" \o Join([i \in 1..Len(items) |->
            "(" \o Repr(items[i][1]) \o ", " \o Repr(items[i][2]) \o ")"], ", ") \o "]"

RECURSIVE InsertItem(_, _)
InsertItem(sorted, item) ==
    IF Len(sorted) = 0 THEN <<item>>
    ELSE IF Rank(item[1]) < Rank(sorted[1][1]) THEN <<item>> \o sorted
    ELSE <<sorted[1]>> \o InsertItem(Tail(sorted), item)

\* a key derivation that keeps the keyword arguments as written
UnsortedItems(kwargs) == kwargs

RECURSIVE SortedItems(_)
\* sorted(kwargs.items()): kwargs is the sequence of (name, value) pairs in
\* the order the caller wrote them; names are distinct
SortedItems(kwargs) ==
    IF Len(kwargs) = 0 THEN <<>>
    ELSE InsertItem(SortedItems(SubSeq(kwargs, 1, Len(kwargs) - 1)),
                    kwargs[Len(kwargs)])

\* hashlib.sha256(...).hexdigest(): the digest is taken to be collision free,
\* so it is represented by the string it digests
Sha256Hex(s) == s

\* MCPRequestCache._generate_cache_key
GenerateCacheKey(method, args, kwargs) ==
    Sha256Hex(method \o ":" \o StrTuple(args) \o ":" \o StrItems(SortedItems(kwargs)))

(***************************************************************************)
(* MCPRequestCache: get, set, clear, cleanup_expired as functions of the   *)
(* cache dictionary, the statistics and the clock.                         *)
(***************************************************************************)
\* dict update  c[key] = entry
DictPut(c, key, entry) ==
    [k \in (DOMAIN c) \cup {key} |-> IF k = key THEN entry ELSE c[k]]

\* del c[key]
DictDel(c, key) == [k \in (DOMAIN c) \ {key} |-> c[k]]

EmptyDict == [k \in {} |-> 0]

\* "ttl or self.default_ttl" taken literally as "ttl if ttl is not None"
TtlIfNotNone(ttl, default_ttl) == IF ttl = None THEN default_ttl ELSE ttl[1]

\* Python's  ttl or self.default_ttl : None and 0 are both falsy
TtlOrDefault(ttl, default_ttl) ==
    IF ttl = None \/ ttl[1] = 0 THEN default_ttl ELSE ttl[1]

\* MCPRequestCache.get: the value returned
CacheGetValue(c, key, t) ==
    IF key \in DOMAIN c /\ t < c[key].expires_at THEN Some(c[key].value) ELSE None

\* MCPRequestCache.get: the cache after the call (lazy eviction)
CacheGetCache(c, key, t) ==
    IF key \in DOMAIN c /\ ~(t < c[key].expires_at) THEN DictDel(c, key) ELSE c

\* a get that counts a miss only when the key is not in the cache
CacheGetStatsExpiredUncounted(c, st, key, t) ==
    [hits           |-> IF key \in DOMAIN c /\ t < c[key].expires_at
                        THEN st.hits + 1 ELSE st.hits,
     misses         |-> IF key \in DOMAIN c THEN st.misses ELSE st.misses + 1,
     total_requests |-> st.total_requests + 1,
     cache_size     |-> st.cache_size]

\* MCPRequestCache.get: the statistics after the call
CacheGetStats(c, st, key, t) ==
    LET hit == key \in DOMAIN c /\ t < c[key].expires_at
        c2  == CacheGetCache(c, key, t)
    IN [hits           |-> IF hit THEN st.hits + 1 ELSE st.hits,
        misses         |-> IF hit THEN st.misses ELSE st.misses + 1,
        total_requests |-> st.total_requests + 1,
        cache_size     |-> IF key \in DOMAIN c /\ ~hit
                           THEN Cardinality(DOMAIN c2) ELSE st.cache_size]

\* MCPRequestCache.set: the cache after the call
CacheSetCache(c, key, method, value, ttl, default_ttl, t) ==
    DictPut(c, key, [value      |-> value,
                     expires_at |-> t + TtlOrDefault(ttl, default_ttl),
                     created_at |-> t,
                     method     |-> method])

\* a sweep that spares the entries whose expiry time is the current time
ExpiredKeysStrict(c, t) == {k \in DOMAIN c : t > c[k].expires_at}

\* MCPRequestCache.cleanup_expired: the keys removed
ExpiredKeys(c, t) == {k \in DOMAIN c : t >= c[k].expires_at}

\* round(n / d, 0) for integers n >= 0, d > 0: Python rounds a tie to the
\* even neighbour
RoundHalfEven(n, d) ==
    IF 2 * (n % d) < d THEN n \div d
    ELSE IF 2 * (n % d) > d THEN (n \div d) + 1
    ELSE (n \div d) + ((n \div d) % 2)

\* MCPRequestCache.get_stats; hit_rate is in hundredths of a percent, as
\* round(hit_rate, 2) leaves it
GetStats(c, st) ==
    [hits           |-> st.hits,
     misses         |-> st.misses,
     total_requests |-> st.total_requests,
     cache_size     |-> st.cache_size,
     hit_rate       |-> IF st.total_requests > 0
                        THEN RoundHalfEven(st.hits * 10000, st.total_requests)
                        ELSE 0,
     cache_entries  |-> Cardinality(DOMAIN c)]

(***************************************************************************)
(* Tool servers, tools and tool results.                                   *)
(***************************************************************************)
CostServer == "awslabs.cost-analysis-mcp-server"
DocServer == "awslabs.aws-documentation-mcp-server"
TerraformServer == "awslabs.terraform-mcp-server"

\* servers that mcp_config.json may list
ConfigServers == {CostServer, DocServer}

\* server names a caller may pass to call_mcp_tool
CallServers == {CostServer, DocServer, TerraformServer}

\* tool names a caller may pass to call_mcp_tool
ToolNames == {"get_pricing_from_api", "get_pricing_from_web", "generate_cost_report",
              "search_documentation", "generate_terraform", "analyze_terraform_project"}

\* marks a tool object without a server_name attribute
NoServerName == "no server_name"

\* A tool result.  shape: none (None), empty (a falsy value such as {} or ""),
\* str, dict, other (list, number).  For a dict: source is its "source" entry
\* ("" when it has none); costField names the entry that carries the price
\* ("cost", "pricing" or none) and costValue what that entry holds (a number,
\* null, or text that is not a number); optField tells whether the dict has
\* an "optimization" entry and whether it is null; recs whether it has a
\* non-empty "recommendations" list; note whether it has a non-empty "note".
\* The text of the result is represented by what the regular expressions of
\* the price parsers read in it: prices, the amounts written in the text in
\* the order they appear, and words, the keywords among "reserved", "spot"
\* and "saving" that occur in it.
\* Money is counted in units of 0.0001 USD.
Result(shape, source, costField, costValue, amount, optField, recs, note, prices, words) ==
    [shape |-> shape, source |-> source, costField |-> costField,
     costValue |-> costValue, amount |-> amount, optField |-> optField,
     recs |-> recs, note |-> note, prices |-> prices, words |-> words]

\* an amount written in a text: cur is "$" for "$12.5" and "USD" for
\* "12.5 USD"; unit is what follows it: "hour", "month", "GB" or "none"
Price(amount, cur, unit) == [amount |-> amount, cur |-> cur, unit |-> unit]

NoneResult == Result("none", "", "none", "none", 0, "absent", FALSE, FALSE, <<>>, {})

Truthy(r) == r.shape \notin {"none", "empty"}

\* keyword arguments of a tool call: a function from names to values
NoKwargs == [k \in {} |-> ""]

(***************************************************************************)
(* MCPClientService._handle_fallback_tool_call and the handlers.           *)
(***************************************************************************)
\* monthly figure of _fallback_cost_analysis_api's base_costs
FallbackApiMonthly(service_code) ==
    CASE service_code = "AmazonEC2" -> 335000
      [] service_code = "AmazonS3" -> 150000
      [] service_code = "AmazonRDS" -> 830000
      [] service_code = "AWSLambda" -> 120000
      [] service_code = "AmazonDynamoDB" -> 250000
      [] OTHER -> 360000

\* _fallback_cost_analysis_api(service_code, region, **kwargs)
FallbackCostAnalysisApi(kwargs) ==
    Result("dict", "fallback_calculation", "pricing", "num",
           FallbackApiMonthly(kwargs["service_code"]), "absent", FALSE, TRUE, <<>>, {})

\* _fallback_cost_analysis_web(query, **kwargs); its analysis text says "$50-200"
FallbackCostAnalysisWeb(kwargs) ==
    Result("dict", "fallback_analysis", "none", "none", 0, "absent", TRUE, TRUE,
           <<Price(500000, "$", "none")>>, {})

\* _fallback_generate_cost_report(services, region, **kwargs)
FallbackGenerateCostReport(kwargs) ==
    Result("dict", "fallback_report", "none", "none", 0, "absent", FALSE, TRUE, <<>>, {})

\* _fallback_aws_documentation(query, **kwargs): a description without prices
FallbackAwsDocumentation(kwargs) ==
    Result("dict", "fallback_documentation", "none", "none", 0, "absent", FALSE, TRUE, <<>>, {})

\* _fallback_terraform_generation(requirements, **kwargs)
FallbackTerraformGeneration(kwargs) ==
    Result("dict", "fallback_terraform", "none", "none", 0, "absent", FALSE, TRUE, <<>>, {})

\* the (server, tool) pairs _handle_fallback_tool_call dispatches on
HandlerPairs ==
    {<<CostServer, "get_pricing_from_api">>, <<CostServer, "get_pricing_from_web">>,
     <<CostServer, "generate_cost_report">>, <<DocServer, "search_documentation">>,
     <<TerraformServer, "generate_terraform">>}

\* the parameters without default that the handler of a pair declares
RequiredParams(server_name, tool_name) ==
    CASE tool_name = "get_pricing_from_api" -> {"service_code", "region"}
      [] tool_name = "get_pricing_from_web" -> {"query"}
      [] tool_name = "generate_cost_report" -> {"services", "region"}
      [] tool_name = "search_documentation" -> {"query"}
      [] tool_name = "generate_terraform" -> {"requirements"}
      [] OTHER -> {}

\* _handle_fallback_tool_call: a handler called without one of its required
\* parameters raises TypeError, which the try/except turns into None
HandleFallbackToolCall(server_name, tool_name, kwargs) ==
    IF <<server_name, tool_name>> \notin HandlerPairs THEN NoneResult
    ELSE IF ~(RequiredParams(server_name, tool_name) \subseteq DOMAIN kwargs) THEN NoneResult
    ELSE CASE tool_name = "get_pricing_from_api" -> FallbackCostAnalysisApi(kwargs)
           [] tool_name = "get_pricing_from_web" -> FallbackCostAnalysisWeb(kwargs)
           [] tool_name = "generate_cost_report" -> FallbackGenerateCostReport(kwargs)
           [] tool_name = "search_documentation" -> FallbackAwsDocumentation(kwargs)
           [] tool_name = "generate_terraform" -> FallbackTerraformGeneration(kwargs)

(***************************************************************************)
(* MCPClientService.call_mcp_tool_async and call_mcp_tool.                 *)
(* The connector's behaviour during one call is the record conn:           *)
(*   conn.enum   "ok" or "raise"   outcome of mcp_client.get_tools()       *)
(*   conn.tools  the tools enumerated: records [name, server_name]         *)
(*   conn.invoke "ok" or "raise"   outcome of target_tool.ainvoke()        *)
(*   conn.reply  the tool's result when ainvoke returns                    *)
(*   conn.loop   "ok", "new raises" or "close raises": the event loop      *)
(* The value of a call is [raised, value, enumerated, invoked, handler]:   *)
(* whether it raised, what it returned, and whether it enumerated tools,   *)
(* invoked a tool, or used the fallback dispatcher.                        *)
(***************************************************************************)
Outcome(raised, value, enumerated, invoked, handler) ==
    [raised |-> raised, value |-> value, enumerated |-> enumerated,
     invoked |-> invoked, handler |-> handler]

\* indices of the enumerated tools named tool_name
Matching(tools, tool_name) == {i \in 1..Len(tools) : tools[i].name = tool_name}

\* the loop over tools: the first tool named tool_name whose server_name is
\* server_name if there is one, else the first tool named tool_name
\* (0 when no tool has that name)
TargetTool(tools, server_name, tool_name) ==
    LET m == Matching(tools, tool_name)
        own == {i \in m : tools[i].server_name = server_name}
        Min(S) == CHOOSE i \in S : \A j \in S : i <= j
    IN IF m = {} THEN 0
       ELSE IF own # {} THEN Min(own)
       ELSE Min(m)

\* the except clause of call_mcp_tool_async
AfterException(server_name, tool_name, kwargs, invoked) ==
    IF tool_name \in {"get_pricing_from_api", "get_pricing_from_web"}
    THEN Outcome(FALSE, HandleFallbackToolCall(server_name, tool_name, kwargs),
                 TRUE, invoked, TRUE)
    ELSE Outcome(FALSE, NoneResult, TRUE, invoked, FALSE)

\* call_mcp_tool_async; client is self.mcp_client (TRUE when created),
\* tools_of is self.mcp_tools
CallMcpToolAsync(client, tools_of, server_name, tool_name, kwargs, conn) ==
    IF ~client THEN Outcome(FALSE, NoneResult, FALSE, FALSE, FALSE)
    ELSE IF server_name \in DOMAIN tools_of /\ tools_of[server_name].fallback_mode
    THEN Outcome(FALSE, HandleFallbackToolCall(server_name, tool_name, kwargs),
                 FALSE, FALSE, TRUE)
    ELSE IF server_name \notin DOMAIN tools_of
    THEN Outcome(FALSE, NoneResult, FALSE, FALSE, FALSE)
    ELSE IF conn.enum = "raise"
    THEN AfterException(server_name, tool_name, kwargs, FALSE)
    ELSE LET target == TargetTool(conn.tools, server_name, tool_name)
         IN IF target = 0 THEN Outcome(FALSE, NoneResult, TRUE, FALSE, FALSE)
            ELSE IF conn.invoke = "raise"
            THEN AfterException(server_name, tool_name, kwargs, TRUE)
            ELSE Outcome(FALSE, conn.reply, TRUE, TRUE, FALSE)

\* a synchronous wrapper without the try/except around the event loop
CallMcpToolUnguarded(client, tools_of, server_name, tool_name, kwargs, conn) ==
    IF conn.loop = "new raises"
    THEN Outcome(TRUE, NoneResult, FALSE, FALSE, FALSE)
    ELSE LET r == CallMcpToolAsync(client, tools_of, server_name, tool_name, kwargs, conn)
         IN IF conn.loop = "close raises" THEN [r EXCEPT !.raised = TRUE, !.value = NoneResult]
            ELSE r

\* call_mcp_tool: run call_mcp_tool_async on a new event loop, close the
\* loop, and turn every exception into None
CallMcpTool(client, tools_of, server_name, tool_name, kwargs, conn) ==
    IF conn.loop = "new raises"
    THEN Outcome(FALSE, NoneResult, FALSE, FALSE, FALSE)
    ELSE LET r == CallMcpToolAsync(client, tools_of, server_name, tool_name, kwargs, conn)
         IN IF r.raised \/ conn.loop = "close raises"
            THEN [r EXCEPT !.raised = FALSE, !.value = NoneResult]
            ELSE r

(***************************************************************************)
(* MCPClientService: the server registry.                                  *)
(***************************************************************************)
\* a tool object of the connector
Tool(name, server_name) == [name |-> name, server_name |-> server_name]

\* the tool enumerations the connector may answer with
ToolLists ==
    { <<>>,
      <<Tool("get_pricing_from_api", CostServer), Tool("get_pricing_from_web", CostServer),
        Tool("search_documentation", DocServer)>>,
      <<Tool("get_pricing_from_api", NoServerName), Tool("get_pricing_from_web", NoServerName),
        Tool("search_documentation", NoServerName)>>,
      <<Tool("get_pricing_from_api", DocServer), Tool("get_pricing_from_api", CostServer)>>,
      <<Tool("get_pricing_from_api", DocServer)>> }

\* an entry of self.mcp_tools; keys an entry does not have read as
\* get_mcp_server_status reads them: "unknown", [], None
ServerInfo(initialized, fallback_mode, connection_status, available_tools, connection_error, attempted) ==
    [initialized |-> initialized, fallback_mode |-> fallback_mode,
     connection_status |-> connection_status, available_tools |-> available_tools,
     connection_error |-> connection_error, attempted |-> attempted]

\* configured servers that are not disabled
NotDisabled(cfg) == {sv \in DOMAIN cfg : cfg[sv] # "disabled"}

\* an initialization without langchain-mcp-adapters that forgets the disabled flag
FallbackModeAllTools(cfg) ==
    [sv \in DOMAIN cfg |-> ServerInfo(TRUE, TRUE, "unknown", <<>>, FALSE, FALSE)]

\* initialize_mcp_servers without langchain-mcp-adapters: the entries written
FallbackModeTools(cfg) ==
    [sv \in NotDisabled(cfg) |-> ServerInfo(TRUE, TRUE, "unknown", <<>>, FALSE, FALSE)]

\* dict.update
Merge(old, new) ==
    [k \in (DOMAIN old) \cup (DOMAIN new) |-> IF k \in DOMAIN new THEN new[k] ELSE old[k]]

\* servers that get a MultiServerMCPClient configuration: not disabled, with
\* a command and arguments
Launchable(cfg) == {sv \in DOMAIN cfg : cfg[sv] = "enabled"}

\* the entries initialize_mcp_servers writes before connecting
ConfiguredTools(cfg) ==
    [sv \in Launchable(cfg) |-> ServerInfo(FALSE, FALSE, "configured", <<>>, FALSE, FALSE)]

\* the server_tools list _verify_mcp_connections builds for one server
RECURSIVE ServerTools(_, _)
ServerTools(tools, server_name) ==
    IF Len(tools) = 0 THEN <<>>
    ELSE LET rest == ServerTools(Tail(tools), server_name)
             t == tools[1]
         IN IF t.server_name = server_name THEN <<t.name>> \o rest
            ELSE IF t.server_name = NoServerName THEN <<t.name \o "?">> \o rest
            ELSE rest

\* _verify_mcp_connections for one server; probe is the outcome of its
\* get_tools() call: [outcome |-> "tools" | "timeout" | "error", tools |-> ...]
Probed(server_name, probe) ==
    CASE probe.outcome = "timeout" ->
            ServerInfo(FALSE, FALSE, "timeout", <<>>, TRUE, TRUE)
      [] probe.outcome = "error" ->
            ServerInfo(FALSE, FALSE, "failed", <<>>, TRUE, TRUE)
      [] probe.outcome = "tools" /\ Len(probe.tools) = 0 ->
            ServerInfo(FALSE, FALSE, "connected_no_tools", <<>>, FALSE, TRUE)
      [] OTHER ->
            ServerInfo(TRUE, FALSE, "connected", ServerTools(probe.tools, server_name),
                       FALSE, TRUE)

\* the success_count _verify_mcp_connections returns: one for every server
\* whose get_tools() answered with a non-empty list
SuccessCount(servers, probe) ==
    Cardinality({sv \in servers :
                    probe[sv].outcome = "tools" /\ Len(probe[sv].tools) > 0})

\* MCPClientService.get_available_tools
GetAvailableTools(tools_of) == {sv \in DOMAIN tools_of : tools_of[sv].initialized}

(***************************************************************************)
(* AWSServiceCodeHelper.  Service names and codes are sequences of         *)
(* one-character strings, so that lower(), strip() and the substring test  *)
(* are computed on the characters.                                         *)
(***************************************************************************)
LowerLetters ==
    <<"a", "b", "c", "d", "e", "f", "g", "h", "i", "j", "k", "l", "m",
      "n", "o", "p", "q", "r", "s", "t", "u", "v", "w", "x", "y", "z">>
UpperLetters ==
    <<"A", "B", "C", "D", "E", "F", "G", "H", "I", "J", "K", "L", "M",
      "N", "O", "P", "Q", "R", "S", "T", "U", "V", "W", "X", "Y", "Z">>

\* a character of the alphabet from as the character of to at its place
CaseOf(ch, from, to) ==
    IF \E i \in 1..Len(from) : from[i] = ch
    THEN to[CHOOSE i \in 1..Len(from) : from[i] = ch]
    ELSE ch

IsLetter(ch) == \E i \in 1..Len(LowerLetters) : LowerLetters[i] = ch \/ UpperLetters[i] = ch

\* str.lower()
Lower(str) == [i \in 1..Len(str) |-> CaseOf(str[i], UpperLetters, LowerLetters)]

\* str.upper()
Upper(str) == [i \in 1..Len(str) |-> CaseOf(str[i], LowerLetters, UpperLetters)]

\* str.title(): a letter is upper-cased after a character that is not a
\* letter, lower-cased after a letter
Title(str) ==
    [i \in 1..Len(str) |->
        IF i = 1 \/ ~IsLetter(str[i - 1])
        THEN CaseOf(str[i], LowerLetters, UpperLetters)
        ELSE CaseOf(str[i], UpperLetters, LowerLetters)]

\* str.strip()
RECURSIVE LStrip(_)
LStrip(str) ==
    IF Len(str) > 0 /\ str[1] = " " THEN LStrip(Tail(str)) ELSE str

RECURSIVE RStrip(_)
RStrip(str) ==
    IF Len(str) > 0 /\ str[Len(str)] = " " THEN RStrip(SubSeq(str, 1, Len(str) - 1)) ELSE str

Strip(str) == RStrip(LStrip(str))

\* a in b  for strings
Contains(b, a) ==
    \E i \in 1..(Len(b) - Len(a) + 1) : SubSeq(b, i, i + Len(a) - 1) = a

\* the string as one value, for concatenation and table lookup
RECURSIVE Text(_)
Text(str) == IF Len(str) = 0 THEN "" ELSE str[1] \o Text(Tail(str))

\* _load_fallback_codes: entries of the curated table, in its order
FallbackCodes ==
    << <<<<"a", "m", "a", "z", "o", "n", " ", "e", "c", "2">>, <<"A", "m", "a", "z", "o", "n", "E", "C", "2">>>>,
       <<<<"a", "m", "a", "z", "o", "n", " ", "s", "3">>, <<"A", "m", "a", "z", "o", "n", "S", "3">>>> >>

\* _get_service_aliases: entries of the alias table
ServiceAliases ==
    << <<<<"e", "c", "2">>, <<"a", "m", "a", "z", "o", "n", " ", "e", "c", "2">>>>,
       <<<<"s", "3">>, <<"a", "m", "a", "z", "o", "n", " ", "s", "3">>>>,
       <<<<"e", "b", "s">>, <<"a", "m", "a", "z", "o", "n", " ", "e", "c", "2">>>> >>

\* dict lookup in a sequence of (key, value) pairs: the value as an
\* optional
Lookup(pairs, key) ==
    IF \E i \in 1..Len(pairs) : pairs[i][1] = key
    THEN Some(pairs[CHOOSE i \in 1..Len(pairs) : pairs[i][1] = key][2])
    ELSE None

\* the first catalog entry that contains the name or is contained in it
FirstPartial(codes, name) ==
    LET hits == {i \in 1..Len(codes) :
                    Contains(codes[i][1], name) \/ Contains(name, codes[i][1])}
    IN IF hits = {} THEN 0 ELSE CHOOSE i \in hits : \A j \in hits : i <= j

\* a lookup that tries the partial match before the exact match
FindPartialFirst(codes, name) ==
    IF FirstPartial(codes, name) # 0 THEN Some(codes[FirstPartial(codes, name)][2])
    ELSE IF Lookup(codes, name) # None THEN Lookup(codes, name)
    ELSE IF Lookup(ServiceAliases, name) # None
    THEN Lookup(codes, Lookup(ServiceAliases, name)[1])
    ELSE None

\* find_service_code on the normalized name: the exact match, then the
\* first partial match, then the alias table's entry
FindNormalized(codes, name) ==
    IF Lookup(codes, name) # None THEN Lookup(codes, name)
    ELSE IF FirstPartial(codes, name) # 0 THEN Some(codes[FirstPartial(codes, name)][2])
    ELSE IF Lookup(ServiceAliases, name) # None
    THEN Lookup(codes, Lookup(ServiceAliases, name)[1])
    ELSE None

\* AWSServiceCodeHelper.find_service_code on the catalog codes
FindServiceCode(codes, service_name) ==
    IF Len(codes) = 0 THEN None ELSE FindNormalized(codes, Strip(Lower(service_name)))

\* the title-cased name of the first catalog entry with the service code
NormalizedName(codes, service_code) ==
    IF service_code = None THEN None
    ELSE Some(Title(codes[CHOOSE i \in 1..Len(codes) :
                              /\ codes[i][2] = service_code[1]
                              /\ \A j \in 1..Len(codes) :
                                    codes[j][2] = service_code[1] => i <= j][1]))

\* AWSServiceCodeHelper.get_service_info: the service_name entry of the
\* result, as an optional
GetServiceInfo(codes, service_name) ==
    NormalizedName(codes, FindServiceCode(codes, service_name))

\* cache_duration of AWSServiceCodeHelper(), in units of twelve hours
CacheDuration == 2

\* the truth value of self.service_codes: None and the empty dict are falsy
HasCodes(sc) == sc # None /\ Len(sc[1]) > 0

\* _is_cache_valid
IsCacheValid(sc, lu, now) == lu # None /\ HasCodes(sc) /\ now < lu[1] + CacheDuration

\* self.service_codes[service_name] = service_code: a new key is appended,
\* a present key keeps its place
StoreCode(codes, name, code) ==
    IF \E i \in 1..Len(codes) : codes[i][1] = name
    THEN [i \in 1..Len(codes) |-> IF codes[i][1] = name THEN <<name, code>> ELSE codes[i]]
    ELSE Append(codes, <<name, code>>)

(***************************************************************************)
(* Cost estimates.  Japanese literals of the source are written in ASCII:  *)
(*   "on-demand"            for the current_state of the converters        *)
(*   "on-demand price"      for the current_state of the static and        *)
(*                          documentation tiers                            *)
(*   "standard"             for the detail of a config without instance    *)
(*   "[estimate]", "[fallback estimate]", "[fallback analysis]" for the    *)
(*                          detail tags, "(fallback)" for source_info      *)
(* A cost is [kind, amount]: kind "num" for a number (amount in units of   *)
(* 0.0001 USD), "null" for None, "text" for a str.  An optimization is an  *)
(* optional string.  reduction_rate is in hundredths.  source and note are *)
(* "" when the dict has no such key.                                       *)
(***************************************************************************)
Num(n) == [kind |-> "num", amount |-> n]

CostEstimate(cost, detail, optimization, current_state, reduction_rate, source, note) ==
    [cost |-> cost, detail |-> detail, optimization |-> optimization,
     current_state |-> current_state, reduction_rate |-> reduction_rate,
     source |-> source, note |-> note]

\* round(x, 2) of an amount: to the nearest multiple of 0.01 USD (the
\* amounts of the model are never halfway between two)
Round2(x) == ((x + 50) \div 100) * 100

\* the indices of the prices a pattern matches, in text order
Matches(prices, curs, units) ==
    {i \in 1..Len(prices) : prices[i].cur \in curs /\ prices[i].unit \in units}

\* re.search: the first match, 0 when there is none
FirstMatch(prices, curs, units) ==
    LET m == Matches(prices, curs, units)
    IN IF m = {} THEN 0 ELSE CHOOSE i \in m : \A j \in m : i <= j

AllUnits == {"hour", "month", "GB", "none"}

\* f"{service_name}" [+ f" {instance_type}"] + f" ({region})"
Detail(service_name, instance_type, region) ==
    service_name \o (IF instance_type # None THEN " " \o Text(instance_type[1]) ELSE "")
        \o " (" \o region \o ")"

\* _parse_text_cost_result: the four price patterns in order, the first
\* match of the first pattern that matches
ParseTextCostResult(r, service_name, instance_type, region) ==
    LET p1 == FirstMatch(r.prices, {"$"}, {"month"})
        p2 == FirstMatch(r.prices, {"USD"}, {"month"})
        p3 == FirstMatch(r.prices, {"$"}, AllUnits)
        p4 == FirstMatch(r.prices, {"USD"}, AllUnits)
        monthly_cost == IF p1 # 0 THEN r.prices[p1].amount
                        ELSE IF p2 # 0 THEN r.prices[p2].amount
                        ELSE IF p3 # 0 THEN r.prices[p3].amount
                        ELSE IF p4 # 0 THEN r.prices[p4].amount
                        ELSE 0
        optimization == IF "reserved" \in r.words THEN "Reserved Instance use"
                        ELSE IF "spot" \in r.words THEN "Spot Instance consider"
                        ELSE IF "saving" \in r.words THEN "Savings Plans consider"
                        ELSE "Reserved Instance consider"
    IN CostEstimate(Num(monthly_cost), Detail(service_name, instance_type, region),
                    Some(optimization), "on-demand", 25, "", "")

\* the value an entry of a tool's dict holds
FieldValue(r) ==
    IF r.costValue = "num" THEN Num(r.amount) ELSE [kind |-> r.costValue, amount |-> 0]

\* _convert_mcp_result_to_standard_format: the estimate, or None when the
\* conversion raises (float() of a value that is not a number, += on None)
ConvertMcpResultToStandardFormat(r, service_name, instance_type, region) ==
    IF r.shape # "dict"
    THEN Some(ParseTextCostResult(r, service_name, instance_type, region))
    ELSE LET base == Detail(service_name, instance_type, region)
             detail == CASE r.source = "fallback_calculation" -> base \o " [fallback estimate]"
                         [] r.source = "fallback_analysis" -> base \o " [fallback analysis]"
                         [] OTHER -> base
             source_info == CASE r.source = "fallback_calculation" -> " (fallback)"
                              [] r.source = "fallback_analysis" -> " (fallback analysis)"
                              [] OTHER -> ""
             first == FirstMatch(r.prices, {"$", "USD"}, AllUnits)
             float_raises == /\ r.source \notin {"fallback_calculation", "fallback_analysis"}
                             /\ r.costField = "cost"
                             /\ r.costValue # "num"
             monthly_cost ==
                 CASE r.source = "fallback_calculation" ->
                         IF r.costField = "pricing" THEN FieldValue(r) ELSE Num(0)
                   [] r.source = "fallback_analysis" -> Num(750000)
                   [] r.costField \in {"cost", "pricing"} -> FieldValue(r)
                   [] OTHER -> IF first # 0 THEN Num(r.prices[first].amount) ELSE Num(0)
             optimization ==
                 IF r.source = "fallback_analysis"
                 THEN IF r.recs THEN Some("rec1; rec2") ELSE Some("Reserved Instance consider")
                 ELSE IF r.optField = "str" THEN Some("advice")
                 ELSE IF r.optField = "null" THEN None
                 ELSE IF r.recs THEN Some("rec1; rec2")
                 ELSE Some("Reserved Instance consider")
             concat_raises == r.note /\ optimization = None
         IN IF float_raises \/ concat_raises THEN None
            ELSE Some(CostEstimate(monthly_cost, detail,
                                   IF r.note THEN Some(optimization[1] \o " " \o source_info)
                                   ELSE optimization,
                                   "on-demand" \o source_info, 25, "", ""))

(***************************************************************************)
(* The resolver as get_cost_estimation sees it.  res.mode is               *)
(*   "ok"                the helper of aws_service_code_helper.py          *)
(*   "find raises once"  its first find_service_code call raises           *)
(*   "find raises"       every find_service_code call raises               *)
(*   "helper raises"     get_service_code_helper() raises                  *)
(*   "stub"              the import failed: FallbackHelper (lines 31-39)   *)
(* k counts the find_service_code calls made before, in this estimate.     *)
(***************************************************************************)
HelperRaises(res) == res.mode = "helper raises"

FindRaises(res, k) ==
    \/ res.mode = "find raises"
    \/ res.mode = "find raises once" /\ k = 0

\* helper.find_service_code(name) when it returns
Find(res, name) == IF res.mode = "stub" THEN None ELSE FindServiceCode(res.codes, name)

\* helper.get_service_info(name)["service_name"] when it returns
Info(res, name) == IF res.mode = "stub" THEN None ELSE GetServiceInfo(res.codes, name)

(***************************************************************************)
(* MCPClientService._calculate_fallback_cost_estimate.                     *)
(***************************************************************************)
\* region_multiplier, in hundredths
RegionMultiplier(region) ==
    CASE region = "us-east-1" -> 100 [] region = "us-east-2" -> 102
      [] region = "us-west-1" -> 108 [] region = "us-west-2" -> 105
      [] region = "eu-west-1" -> 110 [] region = "eu-west-2" -> 112
      [] region = "eu-west-3" -> 115 [] region = "eu-central-1" -> 113
      [] region = "ap-northeast-1" -> 115 [] region = "ap-northeast-2" -> 112
      [] region = "ap-southeast-1" -> 112 [] region = "ap-southeast-2" -> 114
      [] region = "ap-south-1" -> 108 [] region = "ca-central-1" -> 106
      [] region = "sa-east-1" -> 118
      [] OTHER -> 100

\* instance_multiplier, in hundredths; instance_type is an optional string
InstanceMultiplier(instance_type) ==
    IF instance_type = None THEN 100
    ELSE LET it == Text(instance_type[1])
         IN CASE it = "t3.nano" -> 30 [] it = "t3.micro" -> 50 [] it = "t3.small" -> 100
              [] it = "t3.medium" -> 180 [] it = "t3.large" -> 360 [] it = "t3.xlarge" -> 720
              [] it = "t3.2xlarge" -> 1440
              [] it = "t4g.nano" -> 25 [] it = "t4g.micro" -> 45 [] it = "t4g.small" -> 90
              [] it = "t4g.medium" -> 160 [] it = "t4g.large" -> 320 [] it = "t4g.xlarge" -> 640
              [] it = "t4g.2xlarge" -> 1280
              [] it = "m5.large" -> 400 [] it = "m5.xlarge" -> 800 [] it = "m5.2xlarge" -> 1600
              [] it = "m5.4xlarge" -> 3200
              [] it = "c5.large" -> 380 [] it = "c5.xlarge" -> 760 [] it = "c5.2xlarge" -> 1520
              [] it = "c5.4xlarge" -> 3040
              [] it = "r5.large" -> 520 [] it = "r5.xlarge" -> 1040 [] it = "r5.2xlarge" -> 2080
              [] it = "r5.4xlarge" -> 4160
              [] OTHER -> 100

\* base_costs.get(code, 30), in USD
BaseCost(code) ==
    CASE code = "AmazonEC2" -> 25 [] code = "AmazonS3" -> 8 [] code = "AmazonRDS" -> 85
      [] code = "AWSLambda" -> 12 [] code = "AmazonCloudFront" -> 15 [] code = "AmazonVPC" -> 5
      [] code = "AmazonDynamoDB" -> 18 [] code = "AmazonECS" -> 30 [] code = "AmazonEKS" -> 75
      [] code = "AmazonLightsail" -> 20 [] code = "AmazonEFS" -> 35 [] code = "AmazonFSx" -> 120
      [] code = "AmazonRedshift" -> 180 [] code = "AmazonElastiCache" -> 95
      [] code = "AmazonBedrock" -> 45 [] code = "AmazonSageMaker" -> 150
      [] code = "AmazonSNS" -> 2 [] code = "AmazonSQS" -> 3 [] code = "AmazonCloudWatch" -> 12
      [] code = "AmazonRoute53" -> 8 [] code = "AWSELB" -> 25
      [] OTHER -> 30

\* instance_type.startswith('t3.')
StartsWithT3(instance_type) ==
    /\ instance_type # None
    /\ Len(instance_type[1]) >= 3
    /\ SubSeq(instance_type[1], 1, 3) = <<"t", "3", ".">>

\* 'xlarge' in instance_type
HasXlarge(instance_type) ==
    instance_type # None /\ Contains(instance_type[1], <<"x", "l", "a", "r", "g", "e">>)

\* x or default
OrElse(x, default) == IF x # None THEN x[1] ELSE default

\* the outcome of _calculate_fallback_cost_estimate: whether it raised, the
\* value returned, the number of find_service_code calls made
FallbackOutcome(raised, value, finds) ==
    [raised |-> raised, value |-> value, finds |-> finds]

\* "; ".join(optimization_suggestions), "needs detailed analysis" for
\* the empty list
Optimization(suggestions) ==
    IF Len(suggestions) > 0 THEN Join(suggestions, "; ") ELSE "needs detailed analysis"

\* optimization_suggestions
Suggestions(normalized_service_code, instance_type) ==
    (IF StartsWithT3(instance_type) THEN <<"Reserved Instance 20-75%">>
     ELSE IF HasXlarge(instance_type) THEN <<"Savings Plans 72%">>
     ELSE <<>>)
    \o (CASE normalized_service_code = "AmazonEC2" -> <<"Spot Instance 90%">>
          [] normalized_service_code = "AmazonS3" -> <<"Intelligent Tiering">>
          [] normalized_service_code = "AmazonRDS" -> <<"Aurora Serverless">>
          [] OTHER -> <<>>)

\* reduction_rate: the first of Reserved, Savings, Spot among the suggestions
ReductionRate(normalized_service_code, instance_type) ==
    IF StartsWithT3(instance_type) THEN 35
    ELSE IF HasXlarge(instance_type) THEN 45
    ELSE IF normalized_service_code = "AmazonEC2" THEN 65
    ELSE 15

\* f"{display_name} {instance_type or 'standard'} ({region}) {tag}"
TaggedDetail(display_name, instance_type, region, tag) ==
    display_name \o " "
        \o (IF instance_type # None THEN Text(instance_type[1]) ELSE "standard")
        \o " (" \o region \o ") " \o tag

\* a static estimate that leaves out the instance multiplier
StaticEstimateAnyInstance(normalized_service_code, display_name, region, instance_type) ==
    CostEstimate(
        Num(Round2(BaseCost(normalized_service_code) * RegionMultiplier(region) * 100)),
        TaggedDetail(display_name, instance_type, region, "[estimate]"),
        Some(Optimization(Suggestions(normalized_service_code, instance_type))),
        "on-demand price",
        ReductionRate(normalized_service_code, instance_type),
        "", "estimate without MCP server")

\* the dict _calculate_fallback_cost_estimate returns
StaticEstimate(normalized_service_code, display_name, region, instance_type) ==
    CostEstimate(
        Num(Round2(BaseCost(normalized_service_code) * RegionMultiplier(region)
                       * InstanceMultiplier(instance_type))),
        TaggedDetail(display_name, instance_type, region, "[estimate]"),
        Some(Optimization(Suggestions(normalized_service_code, instance_type))),
        "on-demand price",
        ReductionRate(normalized_service_code, instance_type),
        "", "estimate without MCP server")

\* _calculate_fallback_cost_estimate(service_name, region, instance_type);
\* finds is the number of find_service_code calls it made
CalculateFallbackCostEstimate(res, k, service_name, region, instance_type) ==
    IF HelperRaises(res) THEN FallbackOutcome(TRUE, None, 0)
    ELSE IF FindRaises(res, k) THEN FallbackOutcome(TRUE, None, 1)
    ELSE IF FindRaises(res, k + 1) THEN FallbackOutcome(TRUE, None, 2)
    ELSE FallbackOutcome(FALSE,
             Some(StaticEstimate(Text(OrElse(Find(res, service_name), service_name)),
                                 Text(OrElse(Info(res, service_name), service_name)),
                                 region, instance_type)),
             2)

(***************************************************************************)
(* The documentation tier.                                                 *)
(***************************************************************************)
\* the amounts of the prices at the indices idx, in text order
RECURSIVE AmountsAt(_, _)
AmountsAt(prices, idx) ==
    IF idx = {} THEN <<>>
    ELSE LET i == CHOOSE i \in idx : \A j \in idx : i <= j
         IN <<prices[i].amount>> \o AmountsAt(prices, idx \ {i})

\* list.sort() of numbers
RECURSIVE InsertAsc(_, _)
InsertAsc(sorted, x) ==
    IF Len(sorted) = 0 THEN <<x>>
    ELSE IF x < sorted[1] THEN <<x>> \o sorted
    ELSE <<sorted[1]>> \o InsertAsc(Tail(sorted), x)

RECURSIVE SortAsc(_)
SortAsc(xs) ==
    IF Len(xs) = 0 THEN <<>>
    ELSE InsertAsc(SortAsc(SubSeq(xs, 1, Len(xs) - 1)), xs[Len(xs)])

\* the prices the four patterns of _extract_pricing_from_documentation
\* collect: "$" amounts per hour, per month, per GB, then every "$" amount
\* (so an amount with a unit is collected twice), kept when within
\* 0.001 .. 10000
ExtractedPrices(prices) ==
    LET found == AmountsAt(prices, Matches(prices, {"$"}, {"hour"}))
                     \o AmountsAt(prices, Matches(prices, {"$"}, {"month"}))
                     \o AmountsAt(prices, Matches(prices, {"$"}, {"GB"}))
                     \o AmountsAt(prices, Matches(prices, {"$"}, AllUnits))
    IN SelectSeq(found, LAMBDA x : 10 <= x /\ x <= 100000000)

\* the estimate built from the hourly price chosen among the extracted ones
PricedEstimate(hourly_price, service_code, instance_type, region, display_name) ==
    CostEstimate(
        Num(Round2(IF hourly_price * 730 > 50000000 THEN hourly_price
                   ELSE hourly_price * 730)),
        TaggedDetail(display_name, instance_type, region, "[AWS Docs]"),
        Some(CASE service_code = "AmazonEC2" -> "Reserved Instance 75%; Spot Instance 90%"
               [] service_code = "AmazonRDS" -> "Reserved Instance 69%"
               [] service_code = "AmazonS3" -> "Intelligent Tiering"
               [] OTHER -> "Reserved pricing options"),
        "on-demand price", 35, "AWS Documentation MCP",
        "price extracted from AWS documentation")

\* the median of the sorted prices: extracted_prices[len // 2]
MedianEstimate(extracted_prices, service_code, instance_type, region, display_name) ==
    IF Len(extracted_prices) = 0 THEN None
    ELSE Some(PricedEstimate(extracted_prices[(Len(extracted_prices) \div 2) + 1],
                             service_code, instance_type, region, display_name))

\* _extract_pricing_from_documentation
ExtractPricingFromDocumentation(r, service_code, instance_type, region, display_name) ==
    MedianEstimate(SortAsc(ExtractedPrices(r.prices)), service_code, instance_type,
                   region, display_name)

\* if doc_result and isinstance(doc_result, dict): extract
ExtractIfDict(doc_result, service_code, instance_type, region, display_name) ==
    IF Truthy(doc_result) /\ doc_result.shape = "dict"
    THEN ExtractPricingFromDocumentation(doc_result, service_code, instance_type,
                                         region, display_name)
    ELSE None

\* one search_documentation call of _get_pricing_from_aws_documentation and
\* the extraction from its result
DocumentationQuery(client, tools_of, query, service_code, instance_type, region, display_name, conn) ==
    ExtractIfDict(CallMcpTool(client, tools_of, DocServer, "search_documentation",
                              [query |-> query], conn).value,
                  service_code, instance_type, region, display_name)

\* the first query's estimate, else the second query's when there is an
\* instance type; with the number of tool calls made
FirstOrSecond(first, second, instance_type) ==
    IF first # None THEN [value |-> first, calls |-> 1]
    ELSE IF instance_type # None THEN [value |-> second, calls |-> 2]
    ELSE [value |-> None, calls |-> 1]

\* the instance type as written in a query
InstanceText(instance_type) == IF instance_type # None THEN Text(instance_type[1]) ELSE ""

\* _get_pricing_from_aws_documentation: the estimate or None, and the
\* number of tool calls made
GetPricingFromAwsDocumentation(client, tools_of, service_code, region, instance_type, display_name, conn1, conn2) ==
    FirstOrSecond(
        DocumentationQuery(client, tools_of,
            display_name \o " pricing"
                \o (IF instance_type # None THEN " " \o InstanceText(instance_type) ELSE "")
                \o " " \o region \o " cost per hour monthly",
            service_code, instance_type, region, display_name, conn1),
        DocumentationQuery(client, tools_of,
            "AWS " \o display_name \o " " \o InstanceText(instance_type) \o " pricing cost",
            service_code, instance_type, region, display_name, conn2),
        instance_type)

(***************************************************************************)
(* MCPClientService.get_cost_estimation.                                   *)
(* service_config is [service_name, region, instance_type]: service_name   *)
(* a string (character sequence), region a string, instance_type an        *)
(* optional non-empty string (character sequence).  world gives the        *)
(* connector's behaviour during each tool call the estimate may make:      *)
(* world.api, world.web, world.doc, world.doc2.                            *)
(* The outcome is [raised, value, tier, path, stored, tool_calls,          *)
(* helper_calls, finds, cache, stats]: value is the optional estimate      *)
(* returned; tier names the step that produced it ("cache", "tool_api",    *)
(* "tool_web", "documentation", "static_fallback"); path is "hit",         *)
(* "normal", "unresolved" or "exception"; stored tells whether the value   *)
(* was written to the request cache; tool_calls are the tools called, in   *)
(* order; helper_calls counts the get_service_code_helper() calls and      *)
(* finds the find_service_code calls.  An outcome with raised and path     *)
(* "try" is an exception inside the try block, on its way to the except    *)
(* clause.                                                                 *)
(***************************************************************************)
\* the TTL get_cost_estimation passes to request_cache.set
EstimateTtl == 300

ValidRegions ==
    {"us-east-1", "us-east-2", "us-west-1", "us-west-2",
     "eu-west-1", "eu-west-2", "eu-west-3", "eu-central-1",
     "ap-northeast-1", "ap-northeast-2", "ap-southeast-1", "ap-southeast-2",
     "ap-south-1", "ca-central-1", "sa-east-1"}

EstimateOutcome(raised, value, tier, path, stored, tool_calls, helper_calls, finds, c, st) ==
    [raised |-> raised, value |-> value, tier |-> tier, path |-> path, stored |-> stored,
     tool_calls |-> tool_calls, helper_calls |-> helper_calls, finds |-> finds,
     cache |-> c, stats |-> st]

\* an exception raised inside the try block
RaisedInTry(tool_calls, helper_calls, finds, c, st) ==
    EstimateOutcome(TRUE, None, "none", "try", FALSE, tool_calls, helper_calls, finds, c, st)

\* cache_key_data and the key of request_cache.get / set
EstimateKey(service_config) ==
    GenerateCacheKey("get_cost_estimation",
        <<Text(service_config.service_name) \o "_"
            \o (IF service_config.instance_type # None
                THEN Text(service_config.instance_type[1]) ELSE "default")
            \o "_" \o service_config.region>>,
        <<>>)

RepeatTool(n) == [i \in 1..n |-> "search_documentation"]

\* an exception leaves the except clause after h more helper calls and k
\* more find_service_code calls
Escapes(pending, h, k) ==
    EstimateOutcome(TRUE, None, "none", "exception", FALSE, pending.tool_calls,
                    pending.helper_calls + h, pending.finds + k, pending.cache, pending.stats)

\* lines 910-921: the documentation tier, then the static fallback; neither
\* result is stored
ExceptionTiers(pending, doc, static) ==
    IF doc.value # None
    THEN EstimateOutcome(FALSE, doc.value, "documentation", "exception", FALSE,
                         pending.tool_calls \o RepeatTool(doc.calls),
                         pending.helper_calls + 1, pending.finds + 2,
                         pending.cache, pending.stats)
    ELSE EstimateOutcome(static.raised, static.value,
                         IF static.raised THEN "none" ELSE "static_fallback",
                         "exception", FALSE,
                         pending.tool_calls \o RepeatTool(doc.calls),
                         pending.helper_calls + 2, pending.finds + 2 + static.finds,
                         pending.cache, pending.stats)

\* lines 908-921 with the service code and display name of lines 904-906
ExceptionLookups(pending, client, tools_of, service_config, res, world, service_code, display_name) ==
    ExceptionTiers(pending,
        GetPricingFromAwsDocumentation(client, tools_of, Text(service_code),
            service_config.region, service_config.instance_type, display_name,
            world.doc, world.doc2),
        CalculateFallbackCostEstimate(res, pending.finds + 2, service_code,
            service_config.region, service_config.instance_type))

\* the except clause of get_cost_estimation (lines 896-921); pending is the
\* exception raised inside the try block
EstimateAfterException(pending, client, tools_of, service_config, res, world) ==
    IF HelperRaises(res) THEN Escapes(pending, 1, 0)
    ELSE IF FindRaises(res, pending.finds) THEN Escapes(pending, 1, 1)
    ELSE IF FindRaises(res, pending.finds + 1) THEN Escapes(pending, 1, 2)
    ELSE ExceptionLookups(pending, client, tools_of, service_config, res, world,
             OrElse(Find(res, service_config.service_name),
                    Upper(service_config.service_name)),
             Text(OrElse(Info(res, service_config.service_name),
                         service_config.service_name)))

\* request_cache.set("get_cost_estimation", value, 300, cache_key_data)
StoredCache(c, default, t, key, value) ==
    CacheSetCache(c, key, "get_cost_estimation", value, Some(EstimateTtl), default, t)

\* lines 875-876 and 887-888: request_cache.set left the cache c2 and
\* counted its entries; the value is returned
EstimateStored(c2, st, value, tier, tool_calls) ==
    EstimateOutcome(FALSE, value, tier, "normal", TRUE, tool_calls, 1, 2, c2,
                    [st EXCEPT !.cache_size = Cardinality(DOMAIN c2)])

\* lines 867-894: tool is the converted result of the pricing tools, doc
\* the documentation tier's, static the static fallback's
ResolvedTiers(c, st, default, t, key, tool, doc, static) ==
    IF tool.result # None
    THEN EstimateStored(StoredCache(c, default, t, key, tool.result[1]), st,
                        tool.result, tool.tier, tool.calls)
    ELSE IF doc.value # None
    THEN EstimateStored(StoredCache(c, default, t, key, doc.value[1]), st,
                        doc.value, "documentation", tool.calls \o RepeatTool(doc.calls))
    ELSE IF static.raised
    THEN RaisedInTry(tool.calls \o RepeatTool(doc.calls), 2, 2 + static.finds, c, st)
    ELSE EstimateOutcome(FALSE, static.value, "static_fallback", "normal", FALSE,
                         tool.calls \o RepeatTool(doc.calls), 2, 2 + static.finds, c, st)

\* lines 867-870: the conversion of a truthy mcp_result
ToolOutcome(mcp_result, via_web, service_code, instance_type, region) ==
    [result |-> IF Truthy(mcp_result)
                THEN ConvertMcpResultToStandardFormat(mcp_result, service_code,
                                                      instance_type, region)
                ELSE None,
     tier   |-> IF via_web THEN "tool_web" ELSE "tool_api",
     calls  |-> IF via_web THEN <<"get_pricing_from_api", "get_pricing_from_web">>
                ELSE <<"get_pricing_from_api">>]

\* lines 826-865: the API call, and the web-search call made when the API
\* call raises
PricingCalls(api, web, service_code, instance_type, region) ==
    ToolOutcome(IF ~api.raised THEN api.value
                ELSE IF web.raised THEN NoneResult
                ELSE web.value,
                api.raised, service_code, instance_type, region)

\* lines 818-894: service_code is resolved, region validated; the web
\* search is asked the natural-language query of lines 818-821
EstimateResolved(c, st, default, t, client, tools_of, service_config, res, world, service_code, region, display_name) ==
    ResolvedTiers(c, st, default, t, EstimateKey(service_config),
        PricingCalls(
            CallMcpTool(client, tools_of, CostServer, "get_pricing_from_api",
                        [service_code |-> Text(service_code), region |-> region], world.api),
            CallMcpTool(client, tools_of, CostServer, "get_pricing_from_web",
                        [query |-> "Provide cost estimate for AWS " \o display_name
                                    \o (IF service_config.instance_type # None
                                        THEN " using "
                                             \o InstanceText(service_config.instance_type)
                                             \o " instance"
                                        ELSE "")
                                    \o " in " \o region \o " region"],
                        world.web),
            Text(service_code), service_config.instance_type, region),
        GetPricingFromAwsDocumentation(client, tools_of, Text(service_code), region,
            service_config.instance_type, display_name, world.doc, world.doc2),
        CalculateFallbackCostEstimate(res, 2, service_code, region,
                                      service_config.instance_type))

\* lines 789-798: no service code, the static fallback for the upper-cased
\* name
Unresolved(c, st, static) ==
    IF static.raised THEN RaisedInTry(<<>>, 2, 1 + static.finds, c, st)
    ELSE EstimateOutcome(FALSE, static.value, "static_fallback", "unresolved", FALSE,
                         <<>>, 2, 1 + static.finds, c, st)

\* lines 789-894 with the static fallback of line 798 given the name as
\* typed
TryWithCodeRawName(c, st, default, t, client, tools_of, service_config, res, world, service_code) ==
    IF service_code = None
    THEN Unresolved(c, st,
             CalculateFallbackCostEstimate(res, 1, service_config.service_name,
                 service_config.region, service_config.instance_type))
    ELSE IF FindRaises(res, 1) THEN RaisedInTry(<<>>, 1, 2, c, st)
    ELSE EstimateResolved(c, st, default, t, client, tools_of, service_config, res, world,
             service_code[1],
             IF service_config.region \in ValidRegions THEN service_config.region
             ELSE "us-east-1",
             Text(OrElse(Info(res, service_config.service_name),
                         service_config.service_name)))

\* lines 789-894: service_code is what lines 782-787 left, None when
\* find_service_code raised
TryWithCode(c, st, default, t, client, tools_of, service_config, res, world, service_code) ==
    IF service_code = None
    THEN Unresolved(c, st,
             CalculateFallbackCostEstimate(res, 1, Upper(service_config.service_name),
                 service_config.region, service_config.instance_type))
    ELSE IF FindRaises(res, 1) THEN RaisedInTry(<<>>, 1, 2, c, st)
    ELSE EstimateResolved(c, st, default, t, client, tools_of, service_config, res, world,
             service_code[1],
             IF service_config.region \in ValidRegions THEN service_config.region
             ELSE "us-east-1",
             Text(OrElse(Info(res, service_config.service_name),
                         service_config.service_name)))

\* the try block (lines 756-894)
TryBlock(c, st, default, t, client, tools_of, service_config, res, world) ==
    IF HelperRaises(res) THEN RaisedInTry(<<>>, 2, 0, c, st)
    ELSE IF res.mode = "stub" THEN RaisedInTry(<<>>, 1, 0, c, st)
    ELSE TryWithCode(c, st, default, t, client, tools_of, service_config, res, world,
             IF FindRaises(res, 0) THEN None
             ELSE Find(res, service_config.service_name))

\* try ... except: main is the outcome of the try block
AfterTry(main, client, tools_of, service_config, res, world) ==
    IF main.raised
    THEN EstimateAfterException(main, client, tools_of, service_config, res, world)
    ELSE main

\* lines 750-754 and then the try statement: cached_result, c1 and st1 are
\* what request_cache.get returned and left
CachedOrComputed(cached_result, c1, st1, default, t, client, tools_of, service_config, res, world) ==
    IF cached_result # None
    THEN EstimateOutcome(FALSE, cached_result, "cache", "hit", FALSE, <<>>, 0, 0, c1, st1)
    ELSE AfterTry(TryBlock(c1, st1, default, t, client, tools_of, service_config, res, world),
                  client, tools_of, service_config, res, world)

\* get_cost_estimation(service_config) at time t
GetCostEstimation(c, st, default, t, client, tools_of, service_config, res, world) ==
    CachedOrComputed(CacheGetValue(c, EstimateKey(service_config), t),
                     CacheGetCache(c, EstimateKey(service_config), t),
                     CacheGetStats(c, st, EstimateKey(service_config), t),
                     default, t, client, tools_of, service_config, res, world)

VARIABLES
    cache,         \* MCPRequestCache.cache: key -> entry
    stats,         \* MCPRequestCache.stats
    default_ttl,   \* MCPRequestCache.default_ttl
    clock,         \* time.time()
    lastSet,       \* the most recent set call: its arguments
    lastGet,       \* the most recent get call and what it returned
    setCount,      \* number of set calls so far; also the value stored
    callers,       \* the position of each thread inside get or set of the shared cache
    calls,         \* the get and set calls of the threads so far, and what was stored
    MCP_AVAILABLE, \* whether langchain_mcp_adapters could be imported
    config,        \* self.config["mcpServers"]: server -> enabled, disabled, incomplete
    mcp_client,    \* self.mcp_client is not None
    mcp_tools,     \* self.mcp_tools
    initResult,    \* what the latest initialize_mcp_servers returned
    lastCall,      \* the latest call_mcp_tool and its outcome
    lastProbe,     \* the latest _verify_mcp_connections: the answers and its result
    waiting,       \* the call_mcp_tool suspended on an await of the connector
    lastEst,       \* the latest get_cost_estimation: inputs and outcome
    prevEst,       \* the get_cost_estimation before the latest
    estCount,      \* number of get_cost_estimation calls so far
    service_codes, \* AWSServiceCodeHelper.service_codes: None or the catalog
    last_updated,  \* AWSServiceCodeHelper.last_updated: None or a time
    threads,       \* the position of each thread inside the helper's methods
    loadCount,     \* number of _load_service_codes calls so far
    lastLoad,      \* the latest _load_service_codes that finished
    lastFind,      \* the latest find_service_code that returned
    mcp_available,     \* LangChainMCPManager.mcp_available
    manager_client,    \* LangChainMCPManager.client: "none", "batched" or a server
    manager_tools,     \* LangChainMCPManager.tools
    connected_servers, \* LangChainMCPManager.connected_servers
    lastInitialize,    \* the latest LangChainMCPManager.initialize
    initializeCount,   \* number of LangChainMCPManager.initialize calls so far
    session_state,     \* st.session_state: the agent-mode keys present and their values
    lastRun,           \* the latest run of a page script: what it found and did
    runCount,          \* number of page script runs so far
    lastSweep          \* the latest cleanup_expired call of the cache and what it returned

cacheVars == <<cache, stats, default_ttl, clock, lastSet, lastGet, setCount, callers, calls>>

registryVars ==
    <<MCP_AVAILABLE, config, mcp_client, mcp_tools, initResult, lastCall, lastProbe, waiting>>

estVars == <<lastEst, prevEst, estCount>>

helperVars == <<service_codes, last_updated, threads, loadCount, lastLoad, lastFind>>

managerVars ==
    <<mcp_available, manager_client, manager_tools, connected_servers, lastInitialize,
      initializeCount>>

sessionVars == <<session_state, lastRun, runCount>>

vars == <<cache, stats, default_ttl, clock, lastSet, lastGet, setCount, callers, calls,
          MCP_AVAILABLE, config, mcp_client, mcp_tools, initResult, lastCall, lastProbe, waiting,
          lastEst, prevEst, estCount,
          service_codes, last_updated, threads, loadCount, lastLoad, lastFind,
          mcp_available, manager_client, manager_tools, connected_servers, lastInitialize,
          initializeCount, session_state, lastRun, runCount, lastSweep>>

InitStats == [hits |-> 0, misses |-> 0, total_requests |-> 0, cache_size |-> 0]

\* argument lists a caller may write: one positional value, and the keyword
\* arguments region (any value) and tier (one value) in either order
ArgLists == {<<a>> : a \in {"EC2", "S3"}}
KwLists ==
    {<<>>}
    \cup {<<<<"region", v>>, <<"tier", "eu">>>> : v \in {"us", "eu"}}
    \cup {<<<<"tier", "eu">>, <<"region", v>>>> : v \in {"us", "eu"}}

\* no call recorded
NoCall == [made |-> FALSE]

\* a thread that is in neither get nor set of the shared cache
IdleCaller == [pc |-> "idle", op |-> "none", key |-> "", entry |-> <<>>, tmp |-> 0]

\* no thread has called the shared cache
NoCallers == [t \in {1, 2} |-> IdleCaller]

NoCalls == [gets |-> 0, sets |-> 0, raised |-> 0, stored |-> {}]

\* a thread that is in none of the helper's methods
IdleThread == [pc |-> "idle", op |-> "none", name |-> <<>>, offers |-> <<>>, i |-> 0]

\* no page has run in the session
SessionUnused ==
    /\ session_state = EmptyDict
    /\ lastRun = NoCall
    /\ runCount = 0

\* no AWSServiceCodeHelper has been constructed
HelperUnused ==
    /\ service_codes = None
    /\ last_updated = None
    /\ threads = [t \in {1, 2} |-> IdleThread]
    /\ loadCount = 0
    /\ lastLoad = NoCall
    /\ lastFind = NoCall

\* LangChainMCPManager() of a process that never initializes it
ManagerUnused ==
    /\ mcp_available = FALSE
    /\ manager_client = "none"
    /\ manager_tools = <<>>
    /\ connected_servers = <<>>
    /\ lastInitialize = NoCall
    /\ initializeCount = 0

\* MCPRequestCache(default_ttl=...)
CacheInit ==
    /\ cache = EmptyDict
    /\ stats = InitStats
    /\ default_ttl \in 0..MaxTtl
    /\ clock = 0
    /\ lastSet = NoCall
    /\ lastGet = NoCall
    /\ setCount = 0
    /\ callers = NoCallers
    /\ calls = NoCalls
    /\ lastSweep = NoCall
    /\ SessionUnused
    /\ MCP_AVAILABLE = FALSE
    /\ config = EmptyDict
    /\ mcp_client = FALSE
    /\ mcp_tools = EmptyDict
    /\ initResult = None
    /\ lastCall = NoCall
    /\ lastProbe = NoCall
    /\ waiting = NoCall
    /\ lastEst = NoCall
    /\ prevEst = NoCall
    /\ estCount = 0
    /\ HelperUnused
    /\ ManagerUnused

\* cache.set(method, value, ttl, *args, **kwargs)
CacheSet(method, ttl, args, kwargs, maxSets) ==
    /\ setCount < maxSets
    /\ LET key == GenerateCacheKey(method, args, kwargs)
           value == setCount + 1
       IN /\ cache' = CacheSetCache(cache, key, method, value, ttl, default_ttl, clock)
          /\ stats' = [stats EXCEPT !.cache_size = Cardinality(DOMAIN cache')]
          /\ lastSet' = [made |-> TRUE, method |-> method, args |-> args, kwargs |-> kwargs,
                         key |-> key, value |-> value, ttl |-> ttl, at |-> clock]
          /\ setCount' = value
    /\ lastGet' = NoCall
    /\ UNCHANGED <<default_ttl, clock, callers, calls>>
    /\ UNCHANGED registryVars
    /\ UNCHANGED estVars
    /\ UNCHANGED managerVars
    /\ UNCHANGED sessionVars
    /\ lastSweep' = NoCall
    /\ UNCHANGED helperVars

\* cache.get(method, *args, **kwargs)
CacheGet(method, args, kwargs) ==
    /\ stats.total_requests < MaxGets
    /\ LET key == GenerateCacheKey(method, args, kwargs)
       IN /\ lastGet' = [made |-> TRUE, method |-> method, args |-> args, kwargs |-> kwargs,
                         key |-> key, at |-> clock,
                         result |-> CacheGetValue(cache, key, clock)]
          /\ cache' = CacheGetCache(cache, key, clock)
          /\ stats' = CacheGetStats(cache, stats, key, clock)
    /\ UNCHANGED <<default_ttl, clock, lastSet, setCount, callers, calls>>
    /\ UNCHANGED registryVars
    /\ UNCHANGED estVars
    /\ UNCHANGED managerVars
    /\ UNCHANGED sessionVars
    /\ lastSweep' = NoCall
    /\ UNCHANGED helperVars

\* cache.clear()
CacheClear ==
    /\ cache' = EmptyDict
    /\ stats' = [stats EXCEPT !.cache_size = 0]
    /\ lastSet' = NoCall
    /\ lastGet' = NoCall
    /\ UNCHANGED <<default_ttl, clock, setCount, callers, calls>>
    /\ UNCHANGED registryVars
    /\ UNCHANGED estVars
    /\ UNCHANGED managerVars
    /\ UNCHANGED sessionVars
    /\ lastSweep' = NoCall
    /\ UNCHANGED helperVars

\* cache.cleanup_expired(); lastSweep.removed is the number it returns
CacheCleanupExpired ==
    /\ cache' = [k \in (DOMAIN cache) \ ExpiredKeys(cache, clock) |-> cache[k]]
    /\ stats' = [stats EXCEPT !.cache_size = Cardinality(DOMAIN cache')]
    /\ UNCHANGED <<default_ttl, clock, lastSet, lastGet, setCount, callers, calls>>
    /\ UNCHANGED registryVars
    /\ UNCHANGED estVars
    /\ UNCHANGED managerVars
    /\ UNCHANGED sessionVars
    /\ lastSweep' = [made |-> TRUE, removed |-> Cardinality(ExpiredKeys(cache, clock))]
    /\ UNCHANGED helperVars

\* time passes
CacheTick ==
    /\ clock < MaxClock
    /\ clock' = clock + 1
    /\ UNCHANGED <<cache, stats, default_ttl, lastSet, lastGet, setCount, callers, calls>>
    /\ UNCHANGED registryVars
    /\ UNCHANGED estVars
    /\ UNCHANGED managerVars
    /\ UNCHANGED sessionVars
    /\ UNCHANGED lastSweep
    /\ UNCHANGED helperVars

\* The cache driven over many keys with the default TTL.
CacheNextKeys ==
    \/ \E m \in Methods, a \in ArgLists, kw \in KwLists : CacheSet(m, None, a, kw, MaxKeySets)
    \/ \E m \in Methods, a \in ArgLists, kw \in KwLists : CacheGet(m, a, kw)
    \/ CacheClear

SpecCacheKeys == CacheInit /\ [][CacheNextKeys]_vars

\* The cache driven over two keys with every TTL override.
CacheNextTtl ==
    \/ \E t \in {None} \cup {Some(n) : n \in 0..MaxTtl}, a \in ArgLists :
          CacheSet("price", t, a, <<>>, MaxSets)
    \/ \E a \in ArgLists : CacheGet("price", a, <<>>)
    \/ CacheClear
    \/ CacheCleanupExpired
    \/ CacheTick

SpecCacheTtl == CacheInit /\ [][CacheNextTtl]_vars

(***************************************************************************)
(* MCPClientService: initialize_mcp_servers and call_mcp_tool as actions.  *)
(***************************************************************************)
\* mcp_config.json contents: each listed server is enabled, disabled, or
\* enabled without command or arguments
Configs ==
    UNION {[S -> {"enabled", "disabled", "incomplete"}] : S \in SUBSET ConfigServers}

\* MCPClientService.__init__
ServiceInit ==
    /\ MCP_AVAILABLE \in BOOLEAN
    /\ config \in Configs
    /\ mcp_client = FALSE
    /\ mcp_tools = EmptyDict
    /\ initResult = None
    /\ lastCall = NoCall
    /\ lastProbe = NoCall
    /\ waiting = NoCall

\* outcomes of one server's probe in _verify_mcp_connections
Probes ==
    {[outcome |-> o, tools |-> <<>>] : o \in {"timeout", "error"}}
    \cup {[outcome |-> "tools", tools |-> tl] : tl \in ToolLists}

\* initialize_mcp_servers.  uvx: whether _install_uvx_if_needed succeeds;
\* construct: whether MultiServerMCPClient(...) returns ("ok") or raises;
\* probe: the outcome of get_tools() for each server probed
Initialize(uvx, construct, probe) ==
    /\ ~lastCall.made
    /\ ~waiting.made
    /\ UNCHANGED waiting
    /\ IF ~MCP_AVAILABLE
       THEN /\ mcp_tools' = Merge(mcp_tools, FallbackModeTools(config))
            /\ mcp_client' = mcp_client
            /\ initResult' = Some(mcp_tools' # EmptyDict)
            /\ lastProbe' = NoCall
       ELSE IF ~uvx
       THEN /\ initResult' = Some(FALSE)
            /\ lastProbe' = NoCall
            /\ UNCHANGED <<mcp_tools, mcp_client>>
       ELSE LET configured == Merge(mcp_tools, ConfiguredTools(config))
            IN IF Launchable(config) = {}
               THEN /\ mcp_tools' = configured
                    /\ mcp_client' = mcp_client
                    /\ initResult' = Some(FALSE)
                    /\ lastProbe' = NoCall
               ELSE IF construct = "raise"
               THEN /\ mcp_tools' = configured
                    /\ mcp_client' = mcp_client
                    /\ initResult' = Some(FALSE)
                    /\ lastProbe' = NoCall
               ELSE /\ mcp_client' = TRUE
                    /\ mcp_tools' = [sv \in DOMAIN configured |-> Probed(sv, probe[sv])]
                    /\ initResult' = Some(SuccessCount(DOMAIN configured, probe) > 0)
                    /\ lastProbe' = [made |-> TRUE,
                                     probe |-> [sv \in DOMAIN configured |-> probe[sv]],
                                     success_count |-> SuccessCount(DOMAIN configured, probe)]
    /\ lastCall' = NoCall
    /\ UNCHANGED <<MCP_AVAILABLE, config>>
    /\ UNCHANGED cacheVars
    /\ UNCHANGED estVars
    /\ UNCHANGED managerVars
    /\ UNCHANGED sessionVars
    /\ UNCHANGED lastSweep
    /\ UNCHANGED helperVars

\* what the connector may do during one call_mcp_tool
Replies ==
    {NoneResult,
     Result("empty", "", "none", "none", 0, "absent", FALSE, FALSE, <<>>, {}),
     Result("dict", "", "cost", "num", 420000, "absent", FALSE, FALSE, <<>>, {})}

Conn(loop, enum, tools, invoke, reply) ==
    [loop |-> loop, enum |-> enum, tools |-> tools, invoke |-> invoke, reply |-> reply]

Conns ==
    {Conn("new raises", "ok", <<>>, "ok", NoneResult)}
    \cup {Conn(l, "raise", <<>>, "ok", NoneResult) : l \in {"ok", "close raises"}}
    \cup {Conn(l, "ok", tl, "raise", NoneResult) :
            l \in {"ok", "close raises"}, tl \in ToolLists}
    \cup {Conn(l, "ok", tl, "ok", rp) :
            l \in {"ok", "close raises"}, tl \in ToolLists, rp \in Replies}

\* the keyword arguments a caller passes to a tool: the ones its handler
\* declares, or none
FullKwargs(tool_name) ==
    CASE tool_name = "get_pricing_from_api" ->
            [service_code |-> "AmazonEC2", region |-> "us-east-1"]
      [] tool_name = "get_pricing_from_web" -> [query |-> "q"]
      [] tool_name = "generate_cost_report" -> [services |-> "EC2", region |-> "us-east-1"]
      [] tool_name = "search_documentation" -> [query |-> "q"]
      [] tool_name = "generate_terraform" -> [requirements |-> "vpc"]
      [] OTHER -> [project_path |-> "p"]

\* what in the connector raised during the call
Trouble(conn) ==
    IF conn.loop # "ok" THEN conn.loop
    ELSE IF conn.enum = "raise" THEN "get_tools raises"
    ELSE IF conn.invoke = "raise" THEN "ainvoke raises"
    ELSE "none"

\* call_mcp_tool(server_name, tool_name, **kwargs)
Invoke(server_name, tool_name, kwargs, conn) ==
    /\ ~lastCall.made
    /\ ~waiting.made
    /\ lastCall' = [made |-> TRUE, server_name |-> server_name, tool_name |-> tool_name,
                    kwargs |-> kwargs, trouble |-> Trouble(conn),
                    out |-> CallMcpTool(mcp_client, mcp_tools, server_name, tool_name,
                                        kwargs, conn)]
    /\ UNCHANGED <<MCP_AVAILABLE, config, mcp_client, mcp_tools, initResult, lastProbe, waiting>>
    /\ UNCHANGED cacheVars
    /\ UNCHANGED estVars
    /\ UNCHANGED managerVars
    /\ UNCHANGED sessionVars
    /\ UNCHANGED lastSweep
    /\ UNCHANGED helperVars

\* the caller has taken the result of its call
Return ==
    /\ lastCall.made
    /\ lastCall' = NoCall
    /\ UNCHANGED <<MCP_AVAILABLE, config, mcp_client, mcp_tools, initResult, lastProbe, waiting>>
    /\ UNCHANGED cacheVars
    /\ UNCHANGED estVars
    /\ UNCHANGED managerVars
    /\ UNCHANGED sessionVars
    /\ UNCHANGED lastSweep
    /\ UNCHANGED helperVars

\* MCPClientService.__init__ with its request cache
GatewayInit ==
    /\ ServiceInit
    /\ cache = EmptyDict
    /\ stats = InitStats
    /\ default_ttl = DefaultTtl
    /\ clock = 0
    /\ lastSet = NoCall
    /\ lastGet = NoCall
    /\ setCount = 0
    /\ callers = NoCallers
    /\ calls = NoCalls
    /\ lastSweep = NoCall
    /\ SessionUnused
    /\ lastEst = NoCall
    /\ prevEst = NoCall
    /\ estCount = 0
    /\ HelperUnused
    /\ ManagerUnused

GatewayNext ==
    \/ \E uvx \in BOOLEAN, construct \in {"ok", "raise"}, probe \in [ConfigServers -> Probes] :
          Initialize(uvx, construct, probe)
    \/ \E sv \in CallServers, tn \in ToolNames, conn \in Conns :
          \E kw \in {FullKwargs(tn), NoKwargs} : Invoke(sv, tn, kw, conn)
    \/ Return

SpecGateway == GatewayInit /\ [][GatewayNext]_vars

(***************************************************************************)
(* One MCPRequestCache shared by two threads.  A thread runs get or set    *)
(* statement by statement; "x += 1" on an entry of self.stats is a read    *)
(* and a write, and another thread may run between any two statements.     *)
(* The position of a thread in get:                                        *)
(*   count, counted   self.stats["total_requests"] += 1                    *)
(*   test             if cache_key in self.cache                           *)
(*   entry            cache_entry = self.cache[cache_key]                  *)
(*   ttl              if time.time() < cache_entry["expires_at"]           *)
(*   hit, hit2        self.stats["hits"] += 1; return the value            *)
(*   del              del self.cache[cache_key]                            *)
(*   size             self.stats["cache_size"] = len(self.cache)           *)
(*   miss, miss2      self.stats["misses"] += 1; return None               *)
(* and in set:                                                             *)
(*   store            self.cache[cache_key] = {...}                        *)
(*   size             self.stats["cache_size"] = len(self.cache)           *)
(***************************************************************************)
\* number of get and set calls in one behaviour
MaxCalls == 3
\* the latest time of the shared-cache specification
MaxRaceClock == 2

\* thread t goes to position pc
Goto(t, pc) == callers' = [callers EXCEPT ![t].pc = pc]

\* get returns result to thread t
GetReturns(t, result) ==
    /\ callers' = [callers EXCEPT ![t] = IdleCaller]
    /\ lastGet' = [made |-> TRUE, key |-> callers[t].key, at |-> clock, result |-> result]

\* a KeyError leaves the call of thread t
RaisesKeyError(t) ==
    /\ callers' = [callers EXCEPT ![t] = IdleCaller]
    /\ calls' = [calls EXCEPT !.raised = @ + 1]

\* cache.get(method, *args) up to the key (line 100)
RaceGet(t, method, args) ==
    /\ callers[t].pc = "idle"
    /\ calls.gets + calls.sets < MaxCalls
    /\ callers' = [callers EXCEPT ![t] =
                       [IdleCaller EXCEPT !.pc = "count", !.op = "get",
                                          !.key = GenerateCacheKey(method, args, <<>>)]]
    /\ calls' = [calls EXCEPT !.gets = @ + 1]
    /\ UNCHANGED <<cache, stats, default_ttl, clock, lastSet, lastGet, setCount>>
    /\ UNCHANGED registryVars
    /\ UNCHANGED estVars
    /\ UNCHANGED managerVars
    /\ UNCHANGED sessionVars
    /\ UNCHANGED lastSweep
    /\ UNCHANGED helperVars

\* one statement of get (lines 101-120)
RaceGetStep(t) ==
    /\ callers[t].op = "get"
    /\ LET th == callers[t]
           key == th.key
       IN CASE th.pc = "count" ->
                 /\ callers' = [callers EXCEPT ![t].pc = "counted",
                                               ![t].tmp = stats.total_requests]
                 /\ UNCHANGED <<cache, stats, lastGet, calls>>
            [] th.pc = "counted" ->
                 /\ stats' = [stats EXCEPT !.total_requests = th.tmp + 1]
                 /\ Goto(t, "test")
                 /\ UNCHANGED <<cache, lastGet, calls>>
            [] th.pc = "test" ->
                 /\ Goto(t, IF key \in DOMAIN cache THEN "entry" ELSE "miss")
                 /\ UNCHANGED <<cache, stats, lastGet, calls>>
            [] th.pc = "entry" ->
                 /\ IF key \in DOMAIN cache
                    THEN /\ callers' = [callers EXCEPT ![t].pc = "ttl",
                                                       ![t].entry = Some(cache[key])]
                         /\ calls' = calls
                    ELSE RaisesKeyError(t)
                 /\ UNCHANGED <<cache, stats, lastGet>>
            [] th.pc = "ttl" ->
                 /\ Goto(t, IF clock < th.entry[1].expires_at THEN "hit" ELSE "del")
                 /\ UNCHANGED <<cache, stats, lastGet, calls>>
            [] th.pc = "hit" ->
                 /\ callers' = [callers EXCEPT ![t].pc = "hit2", ![t].tmp = stats.hits]
                 /\ UNCHANGED <<cache, stats, lastGet, calls>>
            [] th.pc = "hit2" ->
                 /\ stats' = [stats EXCEPT !.hits = th.tmp + 1]
                 /\ GetReturns(t, Some(th.entry[1].value))
                 /\ UNCHANGED <<cache, calls>>
            [] th.pc = "del" ->
                 /\ IF key \in DOMAIN cache
                    THEN /\ cache' = DictDel(cache, key)
                         /\ Goto(t, "size")
                         /\ calls' = calls
                    ELSE /\ RaisesKeyError(t)
                         /\ cache' = cache
                 /\ UNCHANGED <<stats, lastGet>>
            [] th.pc = "size" ->
                 /\ stats' = [stats EXCEPT !.cache_size = Cardinality(DOMAIN cache)]
                 /\ Goto(t, "miss")
                 /\ UNCHANGED <<cache, lastGet, calls>>
            [] th.pc = "miss" ->
                 /\ callers' = [callers EXCEPT ![t].pc = "miss2", ![t].tmp = stats.misses]
                 /\ UNCHANGED <<cache, stats, lastGet, calls>>
            [] th.pc = "miss2" ->
                 /\ stats' = [stats EXCEPT !.misses = th.tmp + 1]
                 /\ GetReturns(t, None)
                 /\ UNCHANGED <<cache, calls>>
    /\ UNCHANGED <<default_ttl, clock, lastSet, setCount>>
    /\ UNCHANGED registryVars
    /\ UNCHANGED estVars
    /\ UNCHANGED managerVars
    /\ UNCHANGED sessionVars
    /\ UNCHANGED lastSweep
    /\ UNCHANGED helperVars

\* cache.set(method, value, None, *args) up to the entry it will store
\* (lines 133-134)
RaceSet(t, method, args) ==
    /\ callers[t].pc = "idle"
    /\ calls.gets + calls.sets < MaxCalls
    /\ LET key == GenerateCacheKey(method, args, <<>>)
           stored == CacheSetCache(cache, key, method, setCount + 1, None, default_ttl, clock)
       IN /\ callers' = [callers EXCEPT ![t] =
                            [IdleCaller EXCEPT !.pc = "store", !.op = "set", !.key = key,
                                               !.entry = Some(stored[key])]]
          /\ calls' = [calls EXCEPT !.sets = @ + 1,
                                    !.stored = @ \cup {<<key, setCount + 1>>}]
    /\ setCount' = setCount + 1
    /\ UNCHANGED <<cache, stats, default_ttl, clock, lastSet, lastGet>>
    /\ UNCHANGED registryVars
    /\ UNCHANGED estVars
    /\ UNCHANGED managerVars
    /\ UNCHANGED sessionVars
    /\ UNCHANGED lastSweep
    /\ UNCHANGED helperVars

\* one statement of set (lines 136-143)
RaceSetStep(t) ==
    /\ callers[t].op = "set"
    /\ IF callers[t].pc = "store"
       THEN /\ cache' = DictPut(cache, callers[t].key, callers[t].entry[1])
            /\ Goto(t, "size")
            /\ stats' = stats
       ELSE /\ stats' = [stats EXCEPT !.cache_size = Cardinality(DOMAIN cache)]
            /\ callers' = [callers EXCEPT ![t] = IdleCaller]
            /\ cache' = cache
    /\ UNCHANGED <<default_ttl, clock, lastSet, lastGet, setCount, calls>>
    /\ UNCHANGED registryVars
    /\ UNCHANGED estVars
    /\ UNCHANGED managerVars
    /\ UNCHANGED sessionVars
    /\ UNCHANGED lastSweep
    /\ UNCHANGED helperVars

\* time passes, also while a thread is inside a call
RaceTick ==
    /\ clock < MaxRaceClock
    /\ clock' = clock + 1
    /\ UNCHANGED <<cache, stats, default_ttl, lastSet, lastGet, setCount, callers, calls>>
    /\ UNCHANGED registryVars
    /\ UNCHANGED estVars
    /\ UNCHANGED managerVars
    /\ UNCHANGED sessionVars
    /\ UNCHANGED lastSweep
    /\ UNCHANGED helperVars

\* MCPRequestCache(default_ttl=1)
RaceInit ==
    /\ CacheInit
    /\ default_ttl = 1

RaceNext ==
    \/ \E t \in DOMAIN callers, a \in ArgLists : RaceGet(t, "price", a)
    \/ \E t \in DOMAIN callers : RaceGetStep(t)
    \/ \E t \in DOMAIN callers, a \in ArgLists : RaceSet(t, "price", a)
    \/ \E t \in DOMAIN callers : RaceSetStep(t)
    \/ RaceTick

SpecRace == RaceInit /\ [][RaceNext]_vars

(***************************************************************************)
(* call_mcp_tool step by step: the caller's thread runs the event loop     *)
(* until call_mcp_tool_async completes, and the coroutine is suspended at  *)
(* "await self.mcp_client.get_tools()" and at "await target_tool.ainvoke"  *)
(* until the connector answers.  Neither await is wrapped in a timeout.    *)
(***************************************************************************)
\* the call with the connector's answers so far; what has not been answered
\* yet is filled with a raise, which CallMcpTool reports in the same way
\* up to the await in question
Answered(w, enum, tools, invoke, reply) ==
    CallMcpTool(mcp_client, mcp_tools, w.server_name, w.tool_name, w.kwargs,
                Conn(w.loop, enum, tools, invoke, reply))

\* call_mcp_tool returns out to its caller
Completed(w, trouble, out) ==
    /\ lastCall' = [made |-> TRUE, server_name |-> w.server_name,
                    tool_name |-> w.tool_name, kwargs |-> w.kwargs,
                    trouble |-> trouble, out |-> out]
    /\ waiting' = NoCall

\* call_mcp_tool up to the first await: without a client, for a server in
\* fallback mode or unknown, or when the event loop cannot be created, the
\* call returns at once; otherwise it is suspended on get_tools()
CallStart(server_name, tool_name, kwargs, loop) ==
    /\ ~lastCall.made
    /\ ~waiting.made
    /\ LET w == [made |-> TRUE, at |-> "get_tools", server_name |-> server_name,
                 tool_name |-> tool_name, kwargs |-> kwargs, loop |-> loop,
                 tools |-> <<>>]
           out == Answered(w, "raise", <<>>, "raise", NoneResult)
       IN IF out.enumerated
          THEN /\ waiting' = w
               /\ lastCall' = lastCall
          ELSE Completed(w, IF loop = "new raises" THEN loop ELSE "none", out)
    /\ UNCHANGED <<MCP_AVAILABLE, config, mcp_client, mcp_tools, initResult, lastProbe>>
    /\ UNCHANGED cacheVars
    /\ UNCHANGED estVars
    /\ UNCHANGED managerVars
    /\ UNCHANGED sessionVars
    /\ UNCHANGED lastSweep
    /\ UNCHANGED helperVars

\* the connector answers get_tools(): it raises, or returns tools; with a
\* target tool the coroutine goes on to await its ainvoke
EnumerationAnswers(enum, tools) ==
    /\ waiting.made
    /\ waiting.at = "get_tools"
    /\ LET out == Answered(waiting, enum, tools, "raise", NoneResult)
       IN IF out.invoked
          THEN /\ waiting' = [waiting EXCEPT !.at = "ainvoke", !.tools = tools]
               /\ lastCall' = lastCall
          ELSE Completed(waiting, Trouble(Conn(waiting.loop, enum, tools, "ok", NoneResult)),
                         out)
    /\ UNCHANGED <<MCP_AVAILABLE, config, mcp_client, mcp_tools, initResult, lastProbe>>
    /\ UNCHANGED cacheVars
    /\ UNCHANGED estVars
    /\ UNCHANGED managerVars
    /\ UNCHANGED sessionVars
    /\ UNCHANGED lastSweep
    /\ UNCHANGED helperVars

\* the connector answers ainvoke(kwargs): it raises, or returns the result
InvocationAnswers(invoke, reply) ==
    /\ waiting.made
    /\ waiting.at = "ainvoke"
    /\ Completed(waiting, Trouble(Conn(waiting.loop, "ok", waiting.tools, invoke, reply)),
                 Answered(waiting, "ok", waiting.tools, invoke, reply))
    /\ UNCHANGED <<MCP_AVAILABLE, config, mcp_client, mcp_tools, initResult, lastProbe>>
    /\ UNCHANGED cacheVars
    /\ UNCHANGED estVars
    /\ UNCHANGED managerVars
    /\ UNCHANGED sessionVars
    /\ UNCHANGED lastSweep
    /\ UNCHANGED helperVars

\* the steps of the caller's own thread
CallerNext ==
    \/ \E uvx \in BOOLEAN, construct \in {"ok", "raise"}, probe \in [ConfigServers -> Probes] :
          Initialize(uvx, construct, probe)
    \/ \E sv \in CallServers, tn \in ToolNames, loop \in {"ok", "new raises", "close raises"} :
          CallStart(sv, tn, FullKwargs(tn), loop)
    \/ Return

\* the steps of the tool servers, which may never happen
ConnectorNext ==
    \/ \E enum \in {"ok", "raise"}, tools \in ToolLists : EnumerationAnswers(enum, tools)
    \/ \E invoke \in {"ok", "raise"}, reply \in Replies : InvocationAnswers(invoke, reply)

WaitingNext == CallerNext \/ ConnectorNext

\* the caller's thread keeps running; nothing obliges a tool server to answer
SpecWaiting == GatewayInit /\ [][WaitingNext]_vars /\ WF_vars(CallerNext)

(***************************************************************************)
(* get_cost_estimation as an action of the service.                        *)
(***************************************************************************)
\* service configs a caller passes
ServiceConfig(service_name, region, instance_type) ==
    [service_name |-> service_name, region |-> region, instance_type |-> instance_type]

Ec2Medium == ServiceConfig(<<"e", "c", "2">>, "eu-west-1", Some(<<"t", "3", ".", "m", "e", "d", "i", "u", "m">>))
Unknown == ServiceConfig(<<"z", "z", "z">>, "us-east-1", None)

\* the resolver with the curated catalog
Resolver(mode) == [mode |-> mode, codes |-> FallbackCodes]

\* the tools the connector enumerates during an estimate
EstimateTools ==
    <<Tool("get_pricing_from_api", CostServer), Tool("get_pricing_from_web", CostServer),
      Tool("search_documentation", DocServer)>>

\* the connector answers the call with reply
Answers(reply) == Conn("ok", "ok", EstimateTools, "ok", reply)

NoAnswer == Answers(NoneResult)

\* replies of the pricing tools
CostDict == Result("dict", "", "cost", "num", 420000, "absent", FALSE, FALSE, <<>>, {})
PricingReplies ==
    {CostDict,
     Result("dict", "", "cost", "text", 0, "absent", FALSE, FALSE, <<>>, {}),
     Result("dict", "", "pricing", "null", 0, "str", FALSE, FALSE, <<>>, {}),
     Result("dict", "", "cost", "num", 10000, "null", FALSE, FALSE, <<>>, {}),
     Result("dict", "", "cost", "num", 10000, "null", FALSE, TRUE, <<>>, {}),
     Result("dict", "", "cost", "num", -50000, "absent", FALSE, FALSE, <<>>, {}),
     Result("dict", "", "none", "none", 0, "absent", TRUE, FALSE,
            <<Price(125000, "USD", "none")>>, {}),
     Result("str", "", "none", "none", 0, "absent", FALSE, FALSE,
            <<Price(464, "$", "hour"), Price(338700, "$", "month")>>, {"spot"}),
     Result("other", "", "none", "none", 0, "absent", FALSE, FALSE, <<>>, {"saving"}),
     Result("empty", "", "none", "none", 0, "absent", FALSE, FALSE, <<>>, {})}

\* a reply of the documentation tool: prices per hour and per GB and a
\* price out of range
DocPrices ==
    Result("dict", "", "none", "none", 0, "absent", FALSE, FALSE,
           <<Price(464, "$", "hour"), Price(230, "$", "GB"), Price(900000000, "$", "none")>>, {})

World(api, web, doc, doc2) == [api |-> api, web |-> web, doc |-> doc, doc2 |-> doc2]

\* what the connector does during the tool calls of one estimate: the
\* pricing API answers with each reply, or raises; or it answers None and
\* the documentation tool answers with prices, with no "$" price in range
\* and then with prices, or with a text that is not a dict
Worlds ==
    {World(Answers(rp), Answers(CostDict), NoAnswer, NoAnswer) : rp \in PricingReplies}
    \cup {World(c, Answers(CostDict), NoAnswer, NoAnswer) :
            c \in {Conn("ok", "raise", <<>>, "ok", NoneResult),
                   Conn("new raises", "ok", <<>>, "ok", NoneResult)}}
    \cup {World(NoAnswer, Answers(CostDict), Answers(DocPrices), NoAnswer),
          World(NoAnswer, NoAnswer,
                Answers(Result("dict", "", "none", "none", 0, "absent", FALSE, FALSE,
                               <<Price(5, "$", "hour"), Price(125000, "USD", "month")>>, {})),
                Answers(DocPrices)),
          World(NoAnswer, NoAnswer,
                Answers(Result("str", "", "none", "none", 0, "absent", FALSE, FALSE,
                               <<Price(464, "$", "hour")>>, {})),
                NoAnswer)}

AllFail == World(NoAnswer, NoAnswer, NoAnswer, NoAnswer)

\* the estimates requested: every world for one config, the other configs
\* with the pricing API answering or every tool failing (an unknown name
\* with an unknown region and instance type among them), and every resolver
\* mode with every tool failing
EstimateInputs ==
    {<<Ec2Medium, Resolver("ok"), w>> : w \in Worlds \cup {AllFail}}
    \cup {<<ServiceConfig(<<"E", "C", "2", " ">>, "us-east-1", None), Resolver("ok"), w>> :
            w \in {AllFail, World(Answers(CostDict), NoAnswer, NoAnswer, NoAnswer)}}
    \cup {<<ServiceConfig(<<"s", "3">>, "moon-1", None), Resolver("ok"),
            World(Answers(CostDict), NoAnswer, NoAnswer, NoAnswer)>>,
          <<Unknown, Resolver("ok"), AllFail>>,
          <<ServiceConfig(<<"z", "z", "z">>, "moon-1", Some(<<"x", "9">>)), Resolver("ok"), AllFail>>}
    \cup {<<Unknown, Resolver(m), AllFail>> :
            m \in {"find raises once", "find raises", "helper raises", "stub"}}

\* number of get_cost_estimation calls in one behaviour
MaxEstimates == 2

\* get_cost_estimation(service_config)
Estimate(service_config, res, world) ==
    /\ estCount < MaxEstimates
    /\ LET out == GetCostEstimation(cache, stats, default_ttl, clock, mcp_client, mcp_tools,
                                    service_config, res, world)
       IN /\ cache' = out.cache
          /\ stats' = out.stats
          /\ lastEst' = [made |-> TRUE, service_config |-> service_config, res |-> res,
                         world |-> world, client |-> mcp_client, tools_of |-> mcp_tools,
                         key |-> EstimateKey(service_config),
                         out |-> [raised |-> out.raised, value |-> out.value,
                                  tier |-> out.tier, path |-> out.path,
                                  stored |-> out.stored, tool_calls |-> out.tool_calls,
                                  helper_calls |-> out.helper_calls,
                                  finds |-> out.finds]]
    /\ prevEst' = lastEst
    /\ estCount' = estCount + 1
    /\ UNCHANGED <<default_ttl, clock, lastSet, lastGet, setCount, callers, calls>>
    /\ UNCHANGED registryVars
    /\ UNCHANGED helperVars
    /\ UNCHANGED managerVars
    /\ UNCHANGED sessionVars
    /\ UNCHANGED lastSweep

\* MCPClientService.__init__, with an mcp_config.json that enables every
\* server or disables every server
EstimateInit ==
    /\ MCP_AVAILABLE \in BOOLEAN
    /\ config \in {[sv \in ConfigServers |-> st] : st \in {"enabled", "disabled"}}
    /\ mcp_client = FALSE
    /\ mcp_tools = EmptyDict
    /\ initResult = None
    /\ lastCall = NoCall
    /\ lastProbe = NoCall
    /\ waiting = NoCall
    /\ cache = EmptyDict
    /\ stats = InitStats
    /\ default_ttl = DefaultTtl
    /\ clock = 0
    /\ lastSet = NoCall
    /\ lastGet = NoCall
    /\ setCount = 0
    /\ callers = NoCallers
    /\ calls = NoCalls
    /\ lastSweep = NoCall
    /\ SessionUnused
    /\ lastEst = NoCall
    /\ prevEst = NoCall
    /\ estCount = 0
    /\ HelperUnused
    /\ ManagerUnused

\* the service is initialized, if at all, before it is asked for
\* estimates; every server answers the probe with its tools
EstimateNext ==
    \/ /\ estCount = 0
       /\ Initialize(TRUE, "ok",
                     [sv \in ConfigServers |-> [outcome |-> "tools", tools |-> EstimateTools]])
    \/ \E in \in EstimateInputs : Estimate(in[1], in[2], in[3])

SpecEstimate == EstimateInit /\ [][EstimateNext]_vars

(***************************************************************************)
(* AWSServiceCodeHelper as a state machine: two threads share one helper.  *)
(***************************************************************************)
\* number of _load_service_codes calls in one behaviour
MaxLoads == 2
\* the latest time of the helper specification, in units of twelve hours
MaxHelperClock == 2

\* an entry of the "offers" object of the fetched index; kind "bad" is a
\* value that is not a dict
Offer(kind, serviceName, offerCode) ==
    [kind |-> kind, serviceName |-> serviceName, offerCode |-> offerCode]

\* what requests.get and response.json() give: a failure (network error,
\* timeout, error status, unparsable body), or a body whose offers are
\* "EC2 Image Builder" and "Amazon EC2"; one offer without a name; or
\* "Amazon S3" and a value that is not a dict; or "Amazon S3 Glacier" and
\* "Amazon S3"
Fetches ==
    {[ok |-> FALSE, offers |-> <<>>],
     [ok |-> TRUE,
      offers |-> <<Offer("dict", <<"E", "C", "2", " ", "I", "m", "a", "g", "e", " ",
                                   "B", "u", "i", "l", "d", "e", "r">>,
                         <<"I", "m", "a", "g", "e", "B", "u", "i", "l", "d", "e", "r">>),
                   Offer("dict", <<"A", "m", "a", "z", "o", "n", " ", "E", "C", "2">>,
                         <<"A", "m", "a", "z", "o", "n", "E", "C", "2">>)>>],
     [ok |-> TRUE, offers |-> <<Offer("dict", <<>>, <<"X">>)>>],
     [ok |-> TRUE,
      offers |-> <<Offer("dict", <<"A", "m", "a", "z", "o", "n", " ", "S", "3">>,
                         <<"A", "m", "a", "z", "o", "n", "S", "3">>),
                   Offer("bad", <<>>, <<>>)>>],
     [ok |-> TRUE,
      offers |-> <<Offer("dict", <<"A", "m", "a", "z", "o", "n", " ", "S", "3", " ", "G", "l", "a", "c", "i", "e", "r">>,
                         <<"A", "m", "a", "z", "o", "n", "G", "l", "a", "c", "i", "e", "r">>),
                   Offer("dict", <<"A", "m", "a", "z", "o", "n", " ", "S", "3">>,
                         <<"A", "m", "a", "z", "o", "n", "S", "3">>)>>]}

\* service names a caller looks up
FindNames ==
    {<<"E", "C", "2">>, <<"e", "c", "2">>, <<"a", "m", "a", "z", "o", "n", " ", "e", "c", "2">>,
     <<" ", "E", "c", "2", " ">>, <<"e", "b", "s">>, <<"z", "z", "z">>,
     <<"A", "m", "a", "z", "o", "n", " ", "S", "3">>, <<>>, <<" ", " ">>}

\* the constructor has returned
Constructed == \A t \in DOMAIN threads : threads[t].op # "construct"

\* the thread when _load_service_codes returns: find_service_code goes on
\* to its lookup, the constructor and refresh_service_codes return
Loaded(th) ==
    IF th.op = "find" THEN [th EXCEPT !.pc = "lookup", !.offers = <<>>, !.i = 0]
    ELSE IdleThread

\* the except clause of _load_service_codes: _load_fallback_codes
LoadFallbackCodes(t) ==
    /\ service_codes' = Some(FallbackCodes)
    /\ last_updated' = Some(clock)
    /\ lastLoad' = [made |-> TRUE, failed |-> TRUE,
                    offers |-> threads[t].offers, codes |-> FallbackCodes]
    /\ threads' = [threads EXCEPT ![t] = Loaded(@)]

\* _load_service_codes up to  self.service_codes = {}  (lines 33-46)
HelperLoad(t, fetch) ==
    /\ threads[t].pc = "load"
    /\ IF IsCacheValid(service_codes, last_updated, clock)
       THEN /\ threads' = [threads EXCEPT ![t] = Loaded(@)]
            /\ UNCHANGED <<service_codes, last_updated, lastLoad>>
       ELSE IF ~fetch.ok
       THEN LoadFallbackCodes(t)
       ELSE /\ service_codes' = Some(<<>>)
            /\ threads' = [threads EXCEPT ![t] =
                               [@ EXCEPT !.pc = "build", !.offers = fetch.offers, !.i = 1]]
            /\ UNCHANGED <<last_updated, lastLoad>>
    /\ UNCHANGED <<loadCount, lastFind>>
    /\ UNCHANGED cacheVars
    /\ UNCHANGED registryVars
    /\ UNCHANGED estVars
    /\ UNCHANGED managerVars
    /\ UNCHANGED sessionVars
    /\ UNCHANGED lastSweep

\* one iteration of the loop of _load_service_codes (lines 48-52), or the
\* lines after the loop (54-55)
HelperBuild(t) ==
    /\ threads[t].pc = "build"
    /\ LET th == threads[t]
       IN IF th.i > Len(th.offers)
          THEN IF service_codes = None
               THEN LoadFallbackCodes(t)
               ELSE /\ last_updated' = Some(clock)
                    /\ lastLoad' = [made |-> TRUE, failed |-> FALSE,
                                    offers |-> th.offers, codes |-> service_codes[1]]
                    /\ threads' = [threads EXCEPT ![t] = Loaded(@)]
                    /\ UNCHANGED service_codes
          ELSE IF th.offers[th.i].kind = "bad"
          THEN LoadFallbackCodes(t)
          ELSE IF Len(th.offers[th.i].serviceName) > 0 /\ Len(th.offers[th.i].offerCode) > 0
          THEN IF service_codes = None
               THEN LoadFallbackCodes(t)
               ELSE /\ service_codes' = Some(StoreCode(service_codes[1],
                                                       Lower(th.offers[th.i].serviceName),
                                                       th.offers[th.i].offerCode))
                    /\ threads' = [threads EXCEPT ![t].i = @ + 1]
                    /\ UNCHANGED <<last_updated, lastLoad>>
          ELSE /\ threads' = [threads EXCEPT ![t].i = @ + 1]
               /\ UNCHANGED <<service_codes, last_updated, lastLoad>>
    /\ UNCHANGED <<loadCount, lastFind>>
    /\ UNCHANGED cacheVars
    /\ UNCHANGED registryVars
    /\ UNCHANGED estVars
    /\ UNCHANGED managerVars
    /\ UNCHANGED sessionVars
    /\ UNCHANGED lastSweep

\* refresh_service_codes up to its call of _load_service_codes
HelperRefresh(t) ==
    /\ Constructed
    /\ threads[t].pc = "idle"
    /\ loadCount < MaxLoads
    /\ last_updated' = None
    /\ service_codes' = None
    /\ threads' = [threads EXCEPT ![t] = [IdleThread EXCEPT !.pc = "load", !.op = "refresh"]]
    /\ loadCount' = loadCount + 1
    /\ UNCHANGED <<lastLoad, lastFind>>
    /\ UNCHANGED cacheVars
    /\ UNCHANGED registryVars
    /\ UNCHANGED estVars
    /\ UNCHANGED managerVars
    /\ UNCHANGED sessionVars
    /\ UNCHANGED lastSweep

\* what find_service_code returns from line 128 on
Found(name, sc) ==
    [made |-> TRUE, name |-> name, seen |-> sc,
     result |-> IF HasCodes(sc) THEN FindServiceCode(sc[1], name) ELSE None]

\* find_service_code(service_name): the whole call when the catalog is
\* there, else up to its call of _load_service_codes
HelperFind(t, name) ==
    /\ Constructed
    /\ threads[t].pc = "idle"
    /\ IF HasCodes(service_codes)
       THEN /\ lastFind' = Found(name, service_codes)
            /\ UNCHANGED <<threads, loadCount>>
       ELSE /\ loadCount < MaxLoads
            /\ threads' = [threads EXCEPT ![t] =
                               [IdleThread EXCEPT !.pc = "load", !.op = "find", !.name = name]]
            /\ loadCount' = loadCount + 1
            /\ UNCHANGED lastFind
    /\ UNCHANGED <<service_codes, last_updated, lastLoad>>
    /\ UNCHANGED cacheVars
    /\ UNCHANGED registryVars
    /\ UNCHANGED estVars
    /\ UNCHANGED managerVars
    /\ UNCHANGED sessionVars
    /\ UNCHANGED lastSweep

\* find_service_code after the load it asked for (lines 128-148)
HelperLookup(t) ==
    /\ threads[t].pc = "lookup"
    /\ lastFind' = Found(threads[t].name, service_codes)
    /\ threads' = [threads EXCEPT ![t] = IdleThread]
    /\ UNCHANGED <<service_codes, last_updated, loadCount, lastLoad>>
    /\ UNCHANGED cacheVars
    /\ UNCHANGED registryVars
    /\ UNCHANGED estVars
    /\ UNCHANGED managerVars
    /\ UNCHANGED sessionVars
    /\ UNCHANGED lastSweep

\* AWSServiceCodeHelper(): the first thread is in the constructor, about to
\* call _load_service_codes
HelperInit ==
    /\ service_codes = None
    /\ last_updated = None
    /\ threads = [t \in {1, 2} |->
                     IF t = 1 THEN [IdleThread EXCEPT !.pc = "load", !.op = "construct"]
                     ELSE IdleThread]
    /\ loadCount = 1
    /\ lastLoad = NoCall
    /\ lastFind = NoCall
    /\ cache = EmptyDict
    /\ stats = InitStats
    /\ default_ttl = DefaultTtl
    /\ clock = 0
    /\ lastSet = NoCall
    /\ lastGet = NoCall
    /\ setCount = 0
    /\ callers = NoCallers
    /\ calls = NoCalls
    /\ lastSweep = NoCall
    /\ SessionUnused
    /\ MCP_AVAILABLE = FALSE
    /\ config = EmptyDict
    /\ mcp_client = FALSE
    /\ mcp_tools = EmptyDict
    /\ initResult = None
    /\ lastCall = NoCall
    /\ lastProbe = NoCall
    /\ waiting = NoCall
    /\ lastEst = NoCall
    /\ prevEst = NoCall
    /\ estCount = 0
    /\ ManagerUnused

\* time passes between the calls
HelperTick ==
    /\ \A t \in DOMAIN threads : threads[t].pc = "idle"
    /\ clock < MaxHelperClock
    /\ clock' = clock + 1
    /\ UNCHANGED <<cache, stats, default_ttl, lastSet, lastGet, setCount, callers, calls>>
    /\ UNCHANGED registryVars
    /\ UNCHANGED estVars
    /\ UNCHANGED managerVars
    /\ UNCHANGED sessionVars
    /\ UNCHANGED lastSweep
    /\ UNCHANGED helperVars

HelperNext ==
    \/ \E t \in DOMAIN threads, fetch \in Fetches : HelperLoad(t, fetch)
    \/ \E t \in DOMAIN threads : HelperBuild(t)
    \/ \E t \in DOMAIN threads : HelperRefresh(t)
    \/ \E t \in DOMAIN threads, name \in FindNames : HelperFind(t, name)
    \/ \E t \in DOMAIN threads : HelperLookup(t)
    \/ HelperTick

SpecHelper == HelperInit /\ [][HelperNext]_vars

(***************************************************************************)
(* LangChainMCPManager.initialize.                                         *)
(***************************************************************************)
\* number of LangChainMCPManager.initialize calls in one behaviour
MaxInitializes == 2

\* the servers of server_configs in the dict's order
ManagerOrder == <<CostServer, DocServer>>

\* _check_mcp_servers: a server launched by npx is kept when "npx --version"
\* exits with 0 and args[0] is not empty, any other server is kept
CheckMcpServers(server_configs) ==
    {sv \in DOMAIN server_configs :
        \/ server_configs[sv].command # "npx"
        \/ server_configs[sv].npx = "ok" /\ server_configs[sv].has_args}

\* a retry loop that stops at the first server that fails
RECURSIVE FallbackUntilFailure(_, _, _)
FallbackUntilFailure(order, answers, acc) ==
    IF Len(order) = 0 \/ answers[order[1]].outcome # "tools" THEN acc
    ELSE FallbackUntilFailure(Tail(order), answers,
             IF Len(answers[order[1]].tools) > 0
             THEN [tools   |-> acc.tools \o answers[order[1]].tools,
                   servers |-> Append(acc.servers, order[1]),
                   client  |-> IF acc.client = "none" THEN order[1] ELSE acc.client]
             ELSE acc)

\* the loop of _fallback_individual_servers over the servers in order;
\* answers[sv] is what the single-server client of sv does, acc holds
\* working_tools, working_servers and self.client
RECURSIVE FallbackIndividualServers(_, _, _)
FallbackIndividualServers(order, answers, acc) ==
    IF Len(order) = 0 THEN acc
    ELSE FallbackIndividualServers(Tail(order), answers,
             IF answers[order[1]].outcome = "tools" /\ Len(answers[order[1]].tools) > 0
             THEN [tools   |-> acc.tools \o answers[order[1]].tools,
                   servers |-> Append(acc.servers, order[1]),
                   client  |-> IF acc.client = "none" THEN order[1] ELSE acc.client]
             ELSE acc)

\* the servers of order that are in the set kept
Kept(order, kept) ==
    LET In(sv) == sv \in kept
    IN SelectSeq(order, In)

\* what one server of server_configs is and does: launched by uvx, with
\* every outcome of its single-server client (the constructor raises,
\* get_tools times out, raises, or answers); or launched by npx
ManagerCases ==
    {[command |-> "uvx", npx |-> "ok", has_args |-> TRUE, outcome |-> o, tools |-> <<>>] :
        o \in {"construct raises", "timeout", "error", "tools"}}
    \cup {[command |-> c, npx |-> "ok", has_args |-> TRUE, outcome |-> "tools",
           tools |-> <<"search", "read">>] : c \in {"uvx", "npx"}}
    \cup {[command |-> "npx", npx |-> n, has_args |-> TRUE, outcome |-> "tools",
           tools |-> <<"search">>] : n \in {"fails", "raises"}}
    \cup {[command |-> "npx", npx |-> "ok", has_args |-> FALSE, outcome |-> "tools",
           tools |-> <<"search">>]}

\* the tools of the answers, each with the server it came from
ToolsOf(sv, names) == [i \in 1..Len(names) |-> Tool(names[i], sv)]

\* LangChainMCPManager.initialize(server_configs).  construct: whether
\* MultiServerMCPClient(available_configs) returns or raises; batch: what
\* get_tools() of that client does
Initialized(server_configs, construct, batch) ==
    LET available == CheckMcpServers(server_configs)
        order == Kept(ManagerOrder, available)
        answers == [sv \in available |->
                       [outcome |-> server_configs[sv].outcome,
                        tools |-> ToolsOf(sv, server_configs[sv].tools)]]
        retry == FallbackIndividualServers(order, answers,
                     [tools |-> <<>>, servers |-> <<>>, client |-> "batched"])
        unchanged == [client |-> manager_client, tools |-> manager_tools,
                      servers |-> connected_servers]
    IN IF ~mcp_available \/ available = {} \/ construct = "raise"
       THEN [result |-> FALSE, retried |-> <<>>, after |-> unchanged]
       ELSE IF batch.outcome = "tools"
       THEN [result |-> TRUE, retried |-> <<>>,
             after |-> [client |-> "batched", tools |-> batch.tools, servers |-> order]]
       ELSE IF Len(retry.tools) > 0
       THEN [result |-> TRUE, retried |-> order, after |-> retry]
       ELSE [result |-> FALSE, retried |-> order,
             after |-> [unchanged EXCEPT !.client = retry.client]]

ManagerInitialize(server_configs, construct, batch) ==
    /\ initializeCount < MaxInitializes
    /\ LET out == Initialized(server_configs, construct, batch)
       IN /\ manager_client' = out.after.client
          /\ manager_tools' = out.after.tools
          /\ connected_servers' = out.after.servers
          /\ lastInitialize' = [made |-> TRUE, server_configs |-> server_configs,
                                construct |-> construct, batch |-> batch.outcome,
                                retried |-> out.retried, result |-> out.result]
    /\ initializeCount' = initializeCount + 1
    /\ UNCHANGED mcp_available
    /\ UNCHANGED cacheVars
    /\ UNCHANGED registryVars
    /\ UNCHANGED estVars
    /\ UNCHANGED helperVars
    /\ UNCHANGED sessionVars
    /\ UNCHANGED lastSweep

\* LangChainMCPManager()
ManagerInit ==
    /\ mcp_available \in BOOLEAN
    /\ manager_client = "none"
    /\ manager_tools = <<>>
    /\ connected_servers = <<>>
    /\ lastInitialize = NoCall
    /\ initializeCount = 0
    /\ HelperUnused
    /\ cache = EmptyDict
    /\ stats = InitStats
    /\ default_ttl = DefaultTtl
    /\ clock = 0
    /\ lastSet = NoCall
    /\ lastGet = NoCall
    /\ setCount = 0
    /\ callers = NoCallers
    /\ calls = NoCalls
    /\ lastSweep = NoCall
    /\ SessionUnused
    /\ MCP_AVAILABLE = FALSE
    /\ config = EmptyDict
    /\ mcp_client = FALSE
    /\ mcp_tools = EmptyDict
    /\ initResult = None
    /\ lastCall = NoCall
    /\ lastProbe = NoCall
    /\ waiting = NoCall
    /\ lastEst = NoCall
    /\ prevEst = NoCall
    /\ estCount = 0

ManagerNext ==
    \E S \in (SUBSET {CostServer, DocServer}) \ {{}} :
        \E server_configs \in [S -> ManagerCases], construct \in {"ok", "raise"},
           batch \in {[outcome |-> "raise", tools |-> <<>>],
                      [outcome |-> "tools", tools |-> <<>>],
                      [outcome |-> "tools", tools |-> ToolsOf(CostServer, <<"search">>)]} :
            ManagerInitialize(server_configs, construct, batch)

SpecManager == ManagerInit /\ [][ManagerNext]_vars

(***************************************************************************)
(* The agent-mode setting in st.session_state.  A session may hold the key *)
(* enable_terraform_agent_mode written by an earlier version of the        *)
(* Terraform page; both pages keep their toggle in enable_agent_mode.      *)
(***************************************************************************)
\* number of page script runs in one behaviour
MaxRuns == 5

OldKey == "enable_terraform_agent_mode"
NewKey == "enable_agent_mode"

\* session_state.get(key, default)
SessionGet(ss, key, default) == IF key \in DOMAIN ss THEN ss[key] ELSE default

\* a migration that copies the old key whenever it is present
MigratedAlways(ss) ==
    IF OldKey \in DOMAIN ss THEN DictPut(ss, NewKey, ss[OldKey]) ELSE ss

\* terraform_generator.py lines 159-160: the migration
Migrated(ss) ==
    IF OldKey \in DOMAIN ss /\ NewKey \notin DOMAIN ss
    THEN DictPut(ss, NewKey, ss[OldKey])
    ELSE ss

\* one run of the Terraform page up to the toggle (lines 158-168): the
\* migration, the toggle shown with the stored value or True, and the
\* toggle's value written back; flip: the user switches the toggle
TerraformRun(flip) ==
    /\ runCount < MaxRuns
    /\ LET migrated == Migrated(session_state)
           shown == SessionGet(migrated, NewKey, TRUE)
           value == IF flip THEN ~shown ELSE shown
       IN /\ session_state' = DictPut(migrated, NewKey, value)
          /\ lastRun' = [made |-> TRUE, page |-> "terraform", before |-> session_state,
                         migrated |-> migrated, shown |-> shown, value |-> value]
    /\ runCount' = runCount + 1
    /\ UNCHANGED lastSweep
    /\ UNCHANGED cacheVars
    /\ UNCHANGED registryVars
    /\ UNCHANGED estVars
    /\ UNCHANGED helperVars
    /\ UNCHANGED managerVars

\* one run of the chat page up to the toggle (aws_chat.py lines 125-130):
\* no migration, and the toggle shown with the stored value or False
ChatRun(flip) ==
    /\ runCount < MaxRuns
    /\ LET shown == SessionGet(session_state, NewKey, FALSE)
           value == IF flip THEN ~shown ELSE shown
       IN /\ session_state' = DictPut(session_state, NewKey, value)
          /\ lastRun' = [made |-> TRUE, page |-> "chat", before |-> session_state,
                         migrated |-> session_state, shown |-> shown, value |-> value]
    /\ runCount' = runCount + 1
    /\ UNCHANGED lastSweep
    /\ UNCHANGED cacheVars
    /\ UNCHANGED registryVars
    /\ UNCHANGED estVars
    /\ UNCHANGED helperVars
    /\ UNCHANGED managerVars

\* a session that starts empty, or with the old key as an earlier version
\* of the page left it
SessionInit ==
    /\ session_state \in {EmptyDict} \cup {[k \in {OldKey} |-> b] : b \in BOOLEAN}
    /\ lastRun = NoCall
    /\ runCount = 0
    /\ ManagerUnused
    /\ HelperUnused
    /\ cache = EmptyDict
    /\ stats = InitStats
    /\ default_ttl = DefaultTtl
    /\ clock = 0
    /\ lastSet = NoCall
    /\ lastGet = NoCall
    /\ setCount = 0
    /\ callers = NoCallers
    /\ calls = NoCalls
    /\ lastSweep = NoCall
    /\ MCP_AVAILABLE = FALSE
    /\ config = EmptyDict
    /\ mcp_client = FALSE
    /\ mcp_tools = EmptyDict
    /\ initResult = None
    /\ lastCall = NoCall
    /\ lastProbe = NoCall
    /\ waiting = NoCall
    /\ lastEst = NoCall
    /\ prevEst = NoCall
    /\ estCount = 0

SessionNext ==
    \/ \E flip \in BOOLEAN : TerraformRun(flip)
    \/ \E flip \in BOOLEAN : ChatRun(flip)

SpecSession == SessionInit /\ [][SessionNext]_vars

(***************************************************************************)
(* Claims about MCPRequestCache.                                           *)
(***************************************************************************)
\* the keyword arguments of a call as a set of (name, value) pairs
KwSet(kwargs) == {kwargs[i] : i \in 1..Len(kwargs)}

\* the get recorded in lastGet was issued after the set recorded in lastSet
GetAfterSet == lastSet.made /\ lastGet.made

\* the two recorded calls name the same operation and argument values
SameCall ==
    /\ lastGet.method = lastSet.method
    /\ lastGet.args = lastSet.args
    /\ KwSet(lastGet.kwargs) = KwSet(lastSet.kwargs)

\* C9: a get after a set with the same operation name and the same argument
\* values returns the stored value while the entry is unexpired, whatever the
\* order the keyword arguments are written in; a get that differs in the
\* operation name or in a positional or keyword value addresses another key
\* and does not return the value of that set.
C9_KeyStability ==
    GetAfterSet =>
        /\ (SameCall /\ lastGet.at < lastSet.at + default_ttl)
               => lastGet.result = Some(lastSet.value)
        /\ ~SameCall
               => (lastGet.key # lastSet.key /\ lastGet.result # Some(lastSet.value))

\* C9 witness: a hit on an entry stored with the keywords in the other order
C9_Witness ==
    /\ GetAfterSet
    /\ SameCall
    /\ Len(lastSet.kwargs) = 2
    /\ lastGet.kwargs # lastSet.kwargs
    /\ lastGet.result = Some(lastSet.value)

\* C10: after set at time s with TTL override t >= 0 (the default TTL when no
\* override is passed), get on that key returns the stored value at every
\* time before s + t and absent from s + t onward.
C10_TtlOverride ==
    (GetAfterSet /\ lastGet.key = lastSet.key) =>
        (lastGet.result = Some(lastSet.value)
            <=> lastGet.at < lastSet.at + TtlIfNotNone(lastSet.ttl, default_ttl))

(***************************************************************************)
(* Claims about the gateway and the registry.                              *)
(***************************************************************************)
\* C5: call_mcp_tool never propagates an exception, whether tool
\* enumeration, tool invocation, the event loop or the fallback handler
\* raises: it returns a result or None.
C5_NeverRaises == lastCall.made => ~lastCall.out.raised

\* C5 witness: the event loop raised and the call returned None
C5_Witness ==
    /\ lastCall.made
    /\ lastCall.trouble \in {"new raises", "close raises"}
    /\ ~lastCall.out.raised
    /\ lastCall.out.value = NoneResult

\* C6: for every (server, tool) pair that has a fallback handler,
\* call_mcp_tool returns a result that is not absent, in every registry state.
C6_AbsentOnlyWithoutHandler ==
    (lastCall.made /\ <<lastCall.server_name, lastCall.tool_name>> \in HandlerPairs)
        => Truthy(lastCall.out.value)

\* C7: a call to a server marked fallback-mode is handed to the fallback
\* handler of (server, tool) without enumerating or invoking a real tool,
\* and for a pair that has a handler returns that handler's result, which
\* carries a fallback source tag.
C7_FallbackModeRouted ==
    (/\ lastCall.made
     /\ lastCall.server_name \in DOMAIN mcp_tools
     /\ mcp_tools[lastCall.server_name].fallback_mode)
        => /\ lastCall.out.handler
           /\ ~lastCall.out.enumerated
           /\ ~lastCall.out.invoked
           /\ (/\ <<lastCall.server_name, lastCall.tool_name>> \in HandlerPairs
               /\ RequiredParams(lastCall.server_name, lastCall.tool_name)
                     \subseteq DOMAIN lastCall.kwargs)
                 => /\ lastCall.out.value =
                         HandleFallbackToolCall(lastCall.server_name, lastCall.tool_name,
                                                lastCall.kwargs)
                    /\ lastCall.out.value.source \in
                         {"fallback_calculation", "fallback_analysis", "fallback_report",
                          "fallback_documentation", "fallback_terraform"}

\* C8: after initialize_mcp_servers without the tool runtime,
\* get_available_tools lists every configured server that is not disabled
\* and no disabled one, each with fallback_mode and initialized set; the
\* list is non-empty when such a server is configured.
C8_FallbackModeAvailable ==
    (initResult # None /\ ~MCP_AVAILABLE)
        => /\ GetAvailableTools(mcp_tools) = {sv \in DOMAIN config : config[sv] # "disabled"}
           /\ \A sv \in GetAvailableTools(mcp_tools) :
                 mcp_tools[sv].fallback_mode /\ mcp_tools[sv].initialized
           /\ ((\E sv \in DOMAIN config : config[sv] # "disabled")
                 => (GetAvailableTools(mcp_tools) # {} /\ initResult = Some(TRUE)))

\* C8 witness: initialized without the runtime, one server disabled and
\* another one reported available
C8_Witness ==
    /\ initResult # None
    /\ ~MCP_AVAILABLE
    /\ \E sv \in DOMAIN config : config[sv] = "disabled"
    /\ GetAvailableTools(mcp_tools) # {}


(***************************************************************************)
(* Claims about get_cost_estimation.                                       *)
(***************************************************************************)
\* C1: for every well-formed service config and every combination of
\* outcomes of the tool calls and of the resolver (resolve, miss, raise),
\* get_cost_estimation returns an estimate: it never raises and never
\* returns None.
C1_EstimateNeverFails ==
    lastEst.made => (~lastEst.out.raised /\ lastEst.out.value # None)

\* the service code, region and display name of the latest estimate, whose
\* service code is resolved
EstCode == Text(Find(lastEst.res, lastEst.service_config.service_name)[1])

EstRegion ==
    IF lastEst.service_config.region \in ValidRegions THEN lastEst.service_config.region
    ELSE "us-east-1"

EstDisplayName ==
    LET info == Info(lastEst.res, lastEst.service_config.service_name)
    IN Text(IF info # None THEN info[1] ELSE lastEst.service_config.service_name)

\* what a pricing tool yields for the latest estimate when it is called:
\* the converted estimate, None when the tier fails
ToolTier(tool_name, kwargs, conn) ==
    ToolOutcome(CallMcpTool(lastEst.client, lastEst.tools_of, CostServer, tool_name,
                            kwargs, conn).value,
                FALSE, EstCode, lastEst.service_config.instance_type, EstRegion).result

ApiTier ==
    ToolTier("get_pricing_from_api", [service_code |-> EstCode, region |-> EstRegion],
             lastEst.world.api)

WebTier == ToolTier("get_pricing_from_web", [query |-> "q"], lastEst.world.web)

DocTier ==
    GetPricingFromAwsDocumentation(lastEst.client, lastEst.tools_of, EstCode, EstRegion,
        lastEst.service_config.instance_type, EstDisplayName,
        lastEst.world.doc, lastEst.world.doc2).value

\* out is the result of the first of the tiers api, web, doc that succeeded,
\* else of the static fallback
FirstSuccess(out, api, web, doc) ==
    /\ api # None => (out.tier = "tool_api" /\ out.value = api)
    /\ (api = None /\ web # None) => (out.tier = "tool_web" /\ out.value = web)
    /\ (api = None /\ web = None /\ doc # None)
          => (out.tier = "documentation" /\ out.value = doc)
    /\ (api = None /\ web = None /\ doc = None) => out.tier = "static_fallback"

\* C2: on a cache miss with a resolved service code the estimate is the
\* result of the first tier that succeeds in the order tool API, tool
\* web-search, documentation, static fallback: when the API tier fails and
\* the web-search tier would succeed the result is the web-search tier's.
C2_TierOrder ==
    (lastEst.made /\ lastEst.out.path = "normal")
        => FirstSuccess(lastEst.out, ApiTier, WebTier, DocTier)

\* C3: every estimate returned, from whichever tier, is fully populated:
\* cost, detail, optimization, current_state and reduction_rate are present
\* and not null, and its source is one of tool_api, tool_web, documentation,
\* static_fallback and names the tier that produced the figure.
C3_FullyPopulated ==
    (lastEst.made /\ ~lastEst.out.raised) =>
        LET v == lastEst.out.value[1]
        IN /\ v.cost.kind = "num"
           /\ v.detail # ""
           /\ v.optimization # None
           /\ v.current_state # ""
           /\ v.source \in {"tool_api", "tool_web", "documentation", "static_fallback"}
           /\ lastEst.out.tier # "cache" => v.source = lastEst.out.tier

\* every tool is disabled: the configuration disables every server, so the
\* service has no client and no server entry
AllDisabled(est) ==
    /\ \A sv \in DOMAIN config : config[sv] = "disabled"
    /\ ~est.client
    /\ est.tools_of = EmptyDict

\* C4: a result produced by any tier has been stored in the request cache
\* under the key of (service_name, instance_type, region) before it is
\* returned; so of two estimates in a row with the same input while every
\* tool is disabled, the second returns the same value from the cache
\* without a tool or resolver call.
C4_EveryResultCached ==
    /\ (lastEst.made /\ ~lastEst.out.raised /\ lastEst.out.tier # "cache")
          => /\ lastEst.out.stored
             /\ lastEst.key \in DOMAIN cache
             /\ cache[lastEst.key].value = lastEst.out.value[1]
    /\ (/\ prevEst.made /\ lastEst.made
        /\ ~prevEst.out.raised
        /\ prevEst.service_config = lastEst.service_config
        /\ prevEst.res = lastEst.res
        /\ AllDisabled(prevEst) /\ AllDisabled(lastEst))
          => /\ lastEst.out.value = prevEst.out.value
             /\ lastEst.out.tier = "cache"
             /\ lastEst.out.tool_calls = <<>>
             /\ lastEst.out.helper_calls = 0
             /\ lastEst.out.finds = 0

(***************************************************************************)
(* Claims about the statistics of MCPRequestCache.                         *)
(***************************************************************************)
\* the step is a get of the TTL specification
IsGet == \E a \in ArgLists : CacheGet("price", a, <<>>)

\* the counters move as for one get: total_requests by one, hits by one when
\* a non-expired entry exists for the key, misses by one otherwise
GetCounts ==
    LET key == lastGet'.key
        hit == key \in DOMAIN cache /\ clock < cache[key].expires_at
    IN /\ stats'.total_requests = stats.total_requests + 1
       /\ stats'.hits = (IF hit THEN stats.hits + 1 ELSE stats.hits)
       /\ stats'.misses = (IF hit THEN stats.misses ELSE stats.misses + 1)

CountersUnchanged ==
    /\ stats'.total_requests = stats.total_requests
    /\ stats'.hits = stats.hits
    /\ stats'.misses = stats.misses

\* C11 (as amended): each get increases total_requests by one and exactly
\* one of hits (a non-expired entry exists) or misses (otherwise, the
\* expired case included); set, clear and cleanup_expired change none of
\* the three; hence hits + misses = total_requests, and hit_rate is
\* hits / total_requests * 100 rounded to two decimals (0 without requests).
C11_CountersRounded ==
    /\ [][IF IsGet THEN GetCounts ELSE CountersUnchanged]_vars
    /\ [](/\ stats.hits + stats.misses = stats.total_requests
          /\ LET h == GetStats(cache, stats).hit_rate
             IN IF stats.total_requests = 0 THEN h = 0
                ELSE /\ 2 * (h * stats.total_requests - stats.hits * 10000)
                            <= stats.total_requests
                     /\ 2 * (stats.hits * 10000 - h * stats.total_requests)
                            <= stats.total_requests)

\* C11 witness: hits and misses both counted, one miss on an expired entry,
\* and a hit rate that is not a whole number of hundredths
C11_Witness ==
    /\ stats.hits = 1
    /\ stats.total_requests = 3
    /\ lastGet.made
    /\ lastGet.result = None
    /\ lastSet.made
    /\ lastSet.key = lastGet.key
    /\ lastGet.at >= lastSet.at + TtlOrDefault(lastSet.ttl, default_ttl)

\* C11 (as stated): the same, with hit_rate exactly hits / total_requests * 100.
C11_CountersExact ==
    /\ [][IF IsGet THEN GetCounts ELSE CountersUnchanged]_vars
    /\ [](/\ stats.hits + stats.misses = stats.total_requests
          /\ IF stats.total_requests = 0 THEN GetStats(cache, stats).hit_rate = 0
             ELSE GetStats(cache, stats).hit_rate * stats.total_requests
                      = stats.hits * 10000)

(***************************************************************************)
(* Claims about AWSServiceCodeHelper.                                      *)
(***************************************************************************)
\* the three spellings of EC2 the resolver is asked for
Ec2Names ==
    {<<"E", "C", "2">>, <<"e", "c", "2">>, <<"a", "m", "a", "z", "o", "n", " ", "e", "c", "2">>}

\* the lookup saw the catalog as the latest population left it, not empty
SawLoadedCatalog ==
    /\ lastFind.made
    /\ lastLoad.made
    /\ HasCodes(lastFind.seen)
    /\ lastFind.seen = Some(lastLoad.codes)

\* C12: find_service_code ignores letter case and surrounding whitespace;
\* with the catalog loaded "EC2", "ec2" and "amazon ec2" resolve to the same
\* code; a name that equals no catalog name, neither contains nor is
\* contained in one, and is no alias resolves to absent.
C12_ResolverCorrectness ==
    SawLoadedCatalog =>
        /\ \A n \in FindNames :
              Strip(Lower(n)) = Strip(Lower(lastFind.name))
                  => Found(n, lastFind.seen).result = lastFind.result
        /\ \A a, b \in Ec2Names :
              /\ Found(a, lastFind.seen).result # None
              /\ Found(a, lastFind.seen).result = Found(b, lastFind.seen).result
        /\ LET name == Strip(Lower(lastFind.name))
               codes == lastFind.seen[1]
           IN (/\ \A i \in 1..Len(codes) :
                     /\ codes[i][1] # name
                     /\ ~Contains(codes[i][1], name)
                     /\ ~Contains(name, codes[i][1])
               /\ \A i \in 1..Len(ServiceAliases) : ServiceAliases[i][1] # name)
                  => lastFind.result = None

\* the entries a fetched body yields: lower-cased name and code of every
\* offer that has both
UsableEntries(offers) ==
    {<<Lower(offers[i].serviceName), offers[i].offerCode>> :
        i \in {j \in 1..Len(offers) :
                  /\ offers[j].kind = "dict"
                  /\ Len(offers[j].serviceName) > 0
                  /\ Len(offers[j].offerCode) > 0}}

\* C13: whenever catalog population finishes, the catalog is non-empty and
\* comes from one source: the curated table if the fetch failed in any way
\* (a body without usable entries included), else exactly the entries of
\* the remote catalog.
C13_OneSourceNonEmpty ==
    lastLoad.made =>
        /\ Len(lastLoad.codes) > 0
        /\ IF lastLoad.failed \/ UsableEntries(lastLoad.offers) = {}
           THEN lastLoad.codes = FallbackCodes
           ELSE {lastLoad.codes[i] : i \in 1..Len(lastLoad.codes)}
                    = UsableEntries(lastLoad.offers)

(***************************************************************************)
(* Claims about _verify_mcp_connections.                                   *)
(***************************************************************************)
\* the enumeration lists a tool of the server: one that names the server,
\* or one that names no server
HasToolOf(tools, sv) ==
    \E i \in 1..Len(tools) : tools[i].server_name \in {sv, NoServerName}

\* C14: when _verify_mcp_connections returns, every probed server is in the
\* state its own enumeration dictates: at least one tool of the server ->
\* connected, initialized, available_tools non-empty and listing the
\* server's tools, no error; no tool -> connected_no_tools, not
\* initialized; timeout -> timeout, not initialized; other error ->
\* failed, not initialized, error recorded.  No server is left connecting
\* or configured, every one has its attempt recorded, and success_count is
\* the number of initialized servers.
C14_ProbeOutcomes ==
    lastProbe.made =>
        /\ \A sv \in DOMAIN lastProbe.probe :
              LET p == lastProbe.probe[sv]
                  info == mcp_tools[sv]
              IN /\ (p.outcome = "tools" /\ HasToolOf(p.tools, sv)) =>
                        /\ info.connection_status = "connected"
                        /\ info.initialized
                        /\ info.available_tools # <<>>
                        /\ info.available_tools = ServerTools(p.tools, sv)
                        /\ ~info.connection_error
                 /\ (p.outcome = "tools" /\ ~HasToolOf(p.tools, sv)) =>
                        /\ info.connection_status = "connected_no_tools"
                        /\ ~info.initialized
                 /\ p.outcome = "timeout" =>
                        /\ info.connection_status = "timeout"
                        /\ ~info.initialized
                 /\ p.outcome = "error" =>
                        /\ info.connection_status = "failed"
                        /\ ~info.initialized
                        /\ info.connection_error
                 /\ info.connection_status \notin {"connecting", "configured"}
                 /\ info.attempted
        /\ lastProbe.success_count = Cardinality(GetAvailableTools(mcp_tools))

(***************************************************************************)
(* Claims about LangChainMCPManager.initialize.                            *)
(***************************************************************************)
\* the servers the batched client was built for
BatchServers == CheckMcpServers(lastInitialize.server_configs)

\* the single-server client of sv returned at least one tool
ReturnedTools(sv) ==
    /\ lastInitialize.server_configs[sv].outcome = "tools"
    /\ Len(lastInitialize.server_configs[sv].tools) > 0

\* the latest initialize built the batched client and its get_tools() raised
BatchFailed ==
    /\ lastInitialize.made
    /\ mcp_available
    /\ BatchServers # {}
    /\ lastInitialize.construct = "ok"
    /\ lastInitialize.batch = "raise"

C16_InvokeReturns == waiting.made ~> ~waiting.made

(***************************************************************************)
(* Claims about the unresolved service name.                               *)
(***************************************************************************)
\* the latest estimate missed the cache and the resolver returned None for
\* its service name at line 783
ResolverAbsent ==
    /\ lastEst.made
    /\ lastEst.out.tier # "cache"
    /\ lastEst.res.mode = "ok"
    /\ Find(lastEst.res, lastEst.service_config.service_name) = None

\* no pricing tool was called during the latest estimate
NoPricingCall ==
    \A i \in 1..Len(lastEst.out.tool_calls) :
        lastEst.out.tool_calls[i] \notin {"get_pricing_from_api", "get_pricing_from_web"}

\* the static estimate for the upper-cased service name of the latest
\* estimate taken as the service code
UpperCasedStatic ==
    LET code == Text(Upper(lastEst.service_config.service_name))
    IN StaticEstimate(code, code, lastEst.service_config.region,
                      lastEst.service_config.instance_type)

C18_FiguresInRange ==
    (lastEst.made /\ ~lastEst.out.raised /\ lastEst.out.value # None) =>
        LET v == lastEst.out.value[1]
        IN /\ v.cost.kind = "num"
           /\ v.cost.amount >= 0
           /\ v.reduction_rate \in 0..100

(***************************************************************************)
(* Claims about concurrent callers.                                        *)
(***************************************************************************)
\* the catalog is what one whole population leaves: the curated table, or
\* exactly the usable entries of one fetched body
CompleteCatalog(sc) ==
    /\ sc # None
    /\ \/ sc[1] = FallbackCodes
       \/ \E f \in Fetches :
             /\ f.ok
             /\ \A i \in 1..Len(f.offers) : f.offers[i].kind = "dict"
             /\ {sc[1][i] : i \in 1..Len(sc[1])} = UsableEntries(f.offers)

\* C19: a find_service_code that runs while another thread populates the
\* catalog reads either the whole previous catalog or the whole new one,
\* never a missing or partly built one: the catalog every lookup reads is
\* the result of one whole population.
C19_WholeCatalogSeen == lastFind.made => CompleteCatalog(lastFind.seen)

\* C20: one MCPRequestCache may be shared by concurrent callers: whatever
\* the interleaving of their get and set calls (two gets of one key whose
\* entry has just expired included), no call raises, a get returns a value
\* that was stored for its key or None, and when every call has returned
\* hits + misses = total_requests = the number of get calls made.
C20_SafeToShare ==
    /\ calls.raised = 0
    /\ lastGet.made =>
          \/ lastGet.result = None
          \/ <<lastGet.key, lastGet.result[1]>> \in calls.stored
    /\ (\A t \in DOMAIN callers : callers[t].pc = "idle") =>
          /\ stats.hits + stats.misses = stats.total_requests
          /\ stats.total_requests = calls.gets

(***************************************************************************)
(* Claims about the validity period of the catalog.                        *)
(***************************************************************************)
\* the step is a call of find_service_code
IsFind == \E t \in DOMAIN threads, name \in FindNames : HelperFind(t, name)

\* the catalog was populated and its validity period has elapsed
CatalogExpired ==
    /\ last_updated # None
    /\ HasCodes(service_codes)
    /\ clock >= last_updated[1] + CacheDuration

\* the step sends a thread into _load_service_codes
StartsLoad == \E t \in DOMAIN threads : threads[t].pc = "idle" /\ threads'[t].pc = "load"

\* C21: once the validity period of the catalog (24 hours since it was
\* populated) has elapsed, the next find_service_code calls
\* _load_service_codes, which fetches, before it answers; a lookup made
\* while the catalog is valid fetches nothing.
C21_ExpiryTriggersFetch ==
    [][IsFind =>
         /\ CatalogExpired => StartsLoad
         /\ IsCacheValid(service_codes, last_updated, clock) => ~StartsLoad]_vars

(***************************************************************************)
(* Claims about repeated initialization.                                   *)
(***************************************************************************)
\* C22: after any sequence of initialize_mcp_servers calls, whatever the
\* launcher check, the client construction and the probes did in each, the
\* value the latest call returned is TRUE exactly when get_available_tools
\* is non-empty, and get_available_tools lists exactly the servers whose
\* entry has initialized set.
C22_ResultIsUsable ==
    initResult # None =>
        /\ initResult = Some(GetAvailableTools(mcp_tools) # {})
        /\ GetAvailableTools(mcp_tools)
              = {sv \in DOMAIN mcp_tools : mcp_tools[sv].initialized}

C24_TargetOwnedOrUnowned ==
    (waiting.made /\ waiting.at = "ainvoke") =>
        LET tools == waiting.tools
            m == Matching(tools, waiting.tool_name)
            own == {i \in m : tools[i].server_name = waiting.server_name}
            t == TargetTool(tools, waiting.server_name, waiting.tool_name)
        IN /\ t \in m
           /\ own # {} => t \in own
           /\ own = {} =>
                 /\ \A i \in m : tools[i].server_name = NoServerName
                 /\ \A i \in m : t <= i
           /\ tools[t].server_name \in {waiting.server_name, NoServerName}

(***************************************************************************)
(* Claims about the order of the lookups of find_service_code.             *)
(***************************************************************************)
\* C25: on the lower-cased, stripped name, find_service_code answers with
\* the code of the catalog entry of exactly that name whenever there is
\* one, whatever entries stand before it; it consults the alias table only
\* when no entry equals, contains or is contained in the name, and then
\* answers with the code of the entry named as the alias says, or with
\* nothing when the catalog has no such entry.
C25_LookupOrder ==
    (lastFind.made /\ HasCodes(lastFind.seen)) =>
        LET codes == lastFind.seen[1]
            name == Strip(Lower(lastFind.name))
            exact == {i \in 1..Len(codes) : codes[i][1] = name}
            partial == {i \in 1..Len(codes) :
                           Contains(codes[i][1], name) \/ Contains(name, codes[i][1])}
            alias == {a \in 1..Len(ServiceAliases) : ServiceAliases[a][1] = name}
        IN /\ exact # {} => \E i \in exact : lastFind.result = Some(codes[i][2])
           /\ (exact = {} /\ partial # {}) =>
                 \E i \in partial : /\ lastFind.result = Some(codes[i][2])
                                    /\ \A j \in partial : i <= j
           /\ (exact = {} /\ partial = {} /\ alias = {}) => lastFind.result = None
           /\ (exact = {} /\ partial = {} /\ alias # {}) =>
                 \E a \in alias :
                     LET named == {i \in 1..Len(codes) : codes[i][1] = ServiceAliases[a][2]}
                     IN IF named = {} THEN lastFind.result = None
                        ELSE \E i \in named : lastFind.result = Some(codes[i][2])

\* C25 witness: "Amazon S3" was looked up in a catalog whose first entry,
\* "amazon s3 glacier", contains the name, and the answer is the code of
\* the second entry, which equals it
C25_Witness ==
    /\ lastFind.made
    /\ HasCodes(lastFind.seen)
    /\ Len(lastFind.seen[1]) = 2
    /\ Strip(Lower(lastFind.name)) = lastFind.seen[1][2][1]
    /\ Contains(lastFind.seen[1][1][1], lastFind.seen[1][2][1])
    /\ lastFind.result = Some(lastFind.seen[1][2][2])
    /\ lastFind.result # Some(lastFind.seen[1][1][2])

\* C30: whatever the catalog holds, find_service_code answers with nothing
\* for a name that is empty once stripped.
C30_EmptyNameIsAbsent ==
    (lastFind.made /\ Strip(lastFind.name) = <<>>) => lastFind.result = None

(***************************************************************************)
(* Claims about the eviction of expired cache entries.                     *)
(***************************************************************************)
\* C26: an entry leaves the cache only by a get of its own key that finds
\* it expired and returns nothing, by cleanup_expired when its expiry time
\* has been reached, or by clear; a set replaces the entry of its own key
\* and keeps the number of entries of a key at one; get and set leave the
\* entries of other keys as they are, and so does the passing of time;
\* cleanup_expired removes exactly the entries whose expiry time has been
\* reached, leaves the others as they are and returns the number removed.
C26_LazyExactEviction ==
    [][LET removed == (DOMAIN cache) \ (DOMAIN cache')
           expired == {k \in DOMAIN cache : cache[k].expires_at <= clock}
           isGet == stats'.total_requests = stats.total_requests + 1
           isSet == setCount' = setCount + 1
           isSweep == lastSweep'.made /\ clock' = clock
           isTick == clock' # clock
           StaysAsIs(k) == k \in DOMAIN cache' /\ cache'[k] = cache[k]
       IN /\ \A k \in removed :
                \/ isGet /\ lastGet'.key = k /\ k \in expired /\ lastGet'.result = None
                \/ isSweep /\ k \in expired
                \/ ~isGet /\ ~isSet /\ ~isSweep /\ ~isTick /\ cache' = EmptyDict
          /\ isGet =>
                /\ \A k \in (DOMAIN cache) \ {lastGet'.key} : StaysAsIs(k)
                /\ lastGet'.key \in expired =>
                      lastGet'.key \notin DOMAIN cache' /\ lastGet'.result = None
                /\ lastGet'.key \in (DOMAIN cache) \ expired => StaysAsIs(lastGet'.key)
          /\ isSet =>
                /\ \A k \in (DOMAIN cache) \ {lastSet'.key} : StaysAsIs(k)
                /\ DOMAIN cache' = (DOMAIN cache) \cup {lastSet'.key}
                /\ cache'[lastSet'.key].value = lastSet'.value
          /\ isSweep =>
                /\ DOMAIN cache' = (DOMAIN cache) \ expired
                /\ \A k \in DOMAIN cache' : StaysAsIs(k)
                /\ lastSweep'.removed = Cardinality(removed)
          /\ isTick => cache' = cache]_vars

\* C26 witness: cleanup_expired removed an expired entry and returned 1
\* while an entry that has not expired is still stored
C26_Witness ==
    /\ lastSweep.made
    /\ lastSweep.removed = 1
    /\ \E k \in DOMAIN cache : clock < cache[k].expires_at

(***************************************************************************)
(* Claims about responses without a cost.                                  *)
(***************************************************************************)
\* C27: when the response of the pricing API tool holds no amount marked
\* with a currency and no cost field, no cost is extracted from it, the
\* tool tier fails, and the estimate is not the tool tier's: it is neither
\* returned nor stored in the cache.
C27_NoCostFallsThrough ==
    (lastEst.made /\ lastEst.out.path = "normal") =>
        LET response == CallMcpTool(lastEst.client, lastEst.tools_of, CostServer,
                                    "get_pricing_from_api",
                                    [service_code |-> EstCode, region |-> EstRegion],
                                    lastEst.world.api).value
        IN (/\ Truthy(response)
            /\ response.source = ""
            /\ response.costField = "none"
            /\ response.prices = <<>>)
              => /\ ApiTier = None
                 /\ lastEst.out.tier # "tool_api"
                 /\ lastEst.key \in DOMAIN cache => cache[lastEst.key].value.cost # Num(0)

(***************************************************************************)
(* Claims about the static fallback.                                       *)
(***************************************************************************)
\* the service code and the region the static fallback of the latest
\* estimate is given: the resolved code and the validated region, or the
\* upper-cased name and the region as passed when the name is unresolved
StaticCode ==
    IF lastEst.out.path = "normal" THEN EstCode
    ELSE Text(Upper(lastEst.service_config.service_name))

StaticRegion ==
    IF lastEst.out.path = "normal" THEN EstRegion ELSE lastEst.service_config.region

IsStatic(est) ==
    /\ est.made
    /\ ~est.out.raised
    /\ est.out.tier = "static_fallback"
    /\ est.out.path \in {"normal", "unresolved"}
    /\ est.out.value # None

\* C28: the cost of a static fallback estimate is the base cost of the
\* service code (30 for a code outside the table) times the region
\* multiplier times the instance multiplier (1.0 for an unknown key or no
\* instance type), rounded to a whole number of cents; it is more than
\* zero; the estimate carries a note; and two static estimates for the same
\* request are equal.
C28_StaticCost ==
    IsStatic(lastEst) =>
        LET v == lastEst.out.value[1]
            exact == BaseCost(StaticCode) * RegionMultiplier(StaticRegion)
                        * InstanceMultiplier(lastEst.service_config.instance_type)
        IN /\ v.cost.kind = "num"
           /\ v.cost.amount % 100 = 0
           /\ v.cost.amount - exact \in -50..50
           /\ v.cost.amount > 0
           /\ v.note # ""
           /\ (IsStatic(prevEst) /\ prevEst.service_config = lastEst.service_config)
                 => prevEst.out.value = lastEst.out.value

\* C28 witness: EC2 t3.medium in eu-west-1 was estimated by the static
\* fallback at 25 x 1.1 x 1.8 = 49.50 USD, twice in a row
C28_Witness ==
    /\ IsStatic(lastEst)
    /\ IsStatic(prevEst)
    /\ lastEst.service_config = Ec2Medium
    /\ prevEst.service_config = Ec2Medium
    /\ lastEst.out.value[1].cost = Num(495000)

(***************************************************************************)
(* Claims about the client the manager keeps.                              *)
(***************************************************************************)
\* C29: when initialize returns True after get_tools() of the batched
\* client raised, self.client is the single-server client of a server whose
\* own get_tools() returned at least one tool, not the batched client;
\* connected_servers lists exactly the servers whose single-server client
\* returned at least one tool, and tools holds their tools in that order.
C29_RetainedClientWorks ==
    (BatchFailed /\ lastInitialize.result) =>
        /\ manager_client # "batched"
        /\ manager_client \in BatchServers
        /\ ReturnedTools(manager_client)
        /\ {connected_servers[i] : i \in 1..Len(connected_servers)}
              = {sv \in BatchServers : ReturnedTools(sv)}
        /\ \A i, j \in 1..Len(connected_servers) :
              connected_servers[i] = connected_servers[j] => i = j
        /\ {manager_tools[i] : i \in 1..Len(manager_tools)}
              = UNION {{Tool(lastInitialize.server_configs[sv].tools[j], sv) :
                          j \in 1..Len(lastInitialize.server_configs[sv].tools)} :
                       sv \in {s \in BatchServers : ReturnedTools(s)}}

========================
